---- MODULE Spec2Model ----
(***************************************************************************)
(* Model of the enmeil e-mail checker backend:                             *)
(*   - emailProviders.js  getProviderSettings over config.PROVIDERS        *)
(*   - server request handlers (test-connection, fetch-emails, send-email, *)
(*     mark-read, get-folders)                                             *)
(*   - emailUtils.js adapters fetchImapEmails / fetchPop3Emails, the       *)
(*     connection tests, sendEmail, markAsRead, getFolders and             *)
(*     extractFolderNames                                                  *)
(* Strings are TLA+ strings; JavaScript `undefined` for a string field is  *)
(* the sentinel Undefined, an absent port is NoPort.                       *)
(***************************************************************************)
EXTENDS Integers, Sequences, FiniteSets, TLC

VARIABLES
    rIn, rOut,                              \* getProviderSettings: argument, outcome
    boxes, folderList,                      \* extractFolderNames: argument, outcome
    maxRetries, attempt, apiCalls,          \* makeAPICallWithRetry: argument, loop variable, calls made
    waits, lastError, retryPc, retryResult, \* delays waited, lastError, position, returned value
    pc, req, resp, pending, calls, errs,    \* request handler state
    fetchResult, smtpResult,
    logs, console, outbound,                \* logger lines, console.error lines, apiClient calls
    fOp, fArgs, fCount, box,                \* adapter call: which one, its other arguments, count, mailbox
    stage, msgs, fetched,                   \* connection stage, per-message progress, counter
    emails, emailData,                      \* the emails array and the objects it refers to
    promise, result,                        \* the adapter's promise and the value it resolved with
    released, wire, logged, errEvents,      \* end()/quit() calls, FETCH/RETR issued, logger.error calls
    arrival                                 \* history: message ids in the order they were pushed

avars == <<maxRetries, attempt, apiCalls, waits, lastError, retryPc, retryResult>>
rvars == <<rIn, rOut, boxes, folderList, avars>>
hvars == <<pc, req, resp, pending, calls, errs, fetchResult, smtpResult,
           logs, console, outbound>>
fvars == <<fOp, fArgs, fCount, box, stage, msgs, fetched, emails, emailData,
           promise, result, released, wire, logged, errEvents, arrival>>

\* ------------------------------------------------------------------ values

Undefined == "<undefined>"
Null == "<null>"
NoPort == 0

\* JavaScript truthiness of a string-or-undefined value and of a port value.
FalsyStr(s) == s = Undefined \/ s = ""
FalsyNum(n) == n = NoPort

\* ------------------------------------------------------------------ strings

LowerOf ==
    [A |-> "a", B |-> "b", C |-> "c", D |-> "d", E |-> "e", F |-> "f", G |-> "g",
     H |-> "h", I |-> "i", J |-> "j", K |-> "k", L |-> "l", M |-> "m", N |-> "n",
     O |-> "o", P |-> "p", Q |-> "q", R |-> "r", S |-> "s", T |-> "t", U |-> "u",
     V |-> "v", W |-> "w", X |-> "x", Y |-> "y", Z |-> "z"]

LowerChar(c) == IF c \in DOMAIN LowerOf THEN LowerOf[c] ELSE c

RECURSIVE ToLowerCase(_)
ToLowerCase(s) ==
    IF Len(s) = 0 THEN ""
    ELSE LowerChar(SubSeq(s, 1, 1)) \o ToLowerCase(SubSeq(s, 2, Len(s)))

\* String.prototype.includes: needle occurs in hay as a contiguous substring.
Includes(hay, needle) ==
    \E i \in 1..(Len(hay) - Len(needle) + 1) :
        SubSeq(hay, i, i + Len(needle) - 1) = needle

\* Positions of '@' in s.
AtPositions(s) == {i \in 1..Len(s) : SubSeq(s, i, i) = "@"}

Min(S) == CHOOSE x \in S : \A y \in S : x <= y

\* s.split('@')[1]: the text between the first and the second '@' (or the
\* end); Undefined when s holds no '@' (the array has one element only).
SplitAt1(s) ==
    IF AtPositions(s) = {} THEN Undefined
    ELSE LET p1 == Min(AtPositions(s))
             rest == {i \in AtPositions(s) : i > p1}
             p2 == IF rest = {} THEN Len(s) + 1 ELSE Min(rest)
         IN  SubSeq(s, p1 + 1, p2 - 1)

\* ------------------------------------------------------------------ providers

Endpoint(h, p) == [present |-> TRUE, host |-> h, port |-> p]
NoEndpoint == [present |-> FALSE, host |-> Undefined, port |-> NoPort]

\* config.PROVIDERS in key order (Object.keys order is insertion order).
providers ==
    << [key |-> "gmail",
        imap |-> Endpoint("imap.gmail.com", 993),
        pop3 |-> Endpoint("pop.gmail.com", 995),
        smtp |-> Endpoint("smtp.gmail.com", 587)],
       [key |-> "outlook",
        imap |-> Endpoint("outlook.office365.com", 993),
        pop3 |-> Endpoint("outlook.office365.com", 995),
        smtp |-> Endpoint("smtp-mail.outlook.com", 587)],
       [key |-> "yandex",
        imap |-> Endpoint("imap.yandex.ru", 993),
        pop3 |-> Endpoint("pop.yandex.ru", 995),
        smtp |-> Endpoint("smtp.yandex.ru", 587)],
       [key |-> "yahoo",
        imap |-> Endpoint("imap.mail.yahoo.com", 993),
        pop3 |-> Endpoint("pop.mail.yahoo.com", 995),
        smtp |-> Endpoint("smtp.mail.yahoo.com", 587)],
       [key |-> "custom",
        imap |-> NoEndpoint, pop3 |-> NoEndpoint, smtp |-> NoEndpoint] >>

\* The predicate of Object.keys(providers).find(...).
ProviderMatches(provider, domain) ==
    \/ provider.imap.present /\ Includes(provider.imap.host, domain)
    \/ provider.pop3.present /\ Includes(provider.pop3.host, domain)

\* Outcomes of getProviderSettings: a thrown TypeError, null, or a profile.
Thrown == [kind |-> "TypeError"]
NoMatch == [kind |-> "null"]
Profile(p) == [kind |-> "profile", profile |-> p]

\* A lookup that keeps the last matching key instead of the first.
GetProviderSettingsLastMatch(email) ==
    IF SplitAt1(email) = Undefined
    THEN Thrown
    ELSE LET domain == ToLowerCase(SplitAt1(email))
             hits == {i \in 1..Len(providers) : ProviderMatches(providers[i], domain)}
         IN  IF hits = {} THEN NoMatch
             ELSE Profile(providers[CHOOSE i \in hits : \A k \in hits : k <= i])

GetProviderSettings(email) ==
    IF SplitAt1(email) = Undefined
    THEN Thrown      \* undefined.toLowerCase() raises TypeError
    ELSE LET domain == ToLowerCase(SplitAt1(email))
             hits == {i \in 1..Len(providers) : ProviderMatches(providers[i], domain)}
         IN  IF hits = {} THEN NoMatch ELSE Profile(providers[Min(hits)])

\* ------------------------------------------------------------------ resolver runs

Locals == {"u", "Ann.B"}
Domains ==
    {"gmail.com", "GMAIL.COM", "Gmail.Com", "il.com", "yandex.ru", "ya.ru",
     "yahoo.com", "mail.yahoo.com", "office365.com", "outlook.com",
     "hotmail.com", "example.org", "com", "", "mail", "pop.gmail.com.evil.org",
     "POP.yandex.ru"}
Tails == {"", "@x.org"}
ResolveInputs ==
    {l \o s \o d \o t : l \in Locals, s \in {"@", ""}, d \in Domains, t \in Tails}

NotCalled == [kind |-> "not called"]

\* ------------------------------------------------------------------ JSON objects

\* An object literal is built key by key; a repeated key overwrites.
EmptyObject == [k \in {} |-> FALSE]
Put(obj, k, v) == [x \in (DOMAIN obj) \cup {k} |-> IF x = k THEN v ELSE obj[x]]

\* A computed property key: undefined becomes the key "undefined".
KeyOf(p) == IF p = Undefined THEN "undefined" ELSE p

NoResponse == [status |-> 0, body |-> EmptyObject]
Json(status, body) == [status |-> status, body |-> body]

RECURSIVE Join(_, _)
Join(list, sep) ==
    IF Len(list) = 0 THEN ""
    ELSE IF Len(list) = 1 THEN list[1]
    ELSE list[1] \o sep \o Join(Tail(list), sep)

\* ------------------------------------------------------------------ requests

\* express-validator's body('email').isEmail(): one '@', a non-empty local
\* part and a dotted domain.
IsEmail(e) ==
    /\ Cardinality(AtPositions(e)) = 1
    /\ LET p == Min(AtPositions(e))
           d == SubSeq(e, p + 1, Len(e))
       IN  /\ p > 1
           /\ Len(d) >= 3
           /\ Includes(SubSeq(d, 2, Len(d) - 1), ".")

HandlerEmails == {"u@gmail.com", "u@yandex.ru", "u@example.org", "nobody"}
Protocols == {"imap", "pop3", "smtp", "success", "error", Undefined}
UserHosts == {Undefined, "mail.example.org"}
UserImapPorts == {NoPort, 143}
UserPop3Ports == {NoPort, 110}
UserSmtpPorts == {NoPort, 25}
ErrMsgs == {"ECONNREFUSED", "Invalid credentials"}
FetchedCounts == {0, 2}
Passwords == {"", "hunter2"}
Actions == {"", "sync"}

Request(op, email, proto, ih, ip, ph, pp, sh, sp) ==
    [op |-> op, email |-> email, fetchProtocol |-> proto,
     imapHost |-> ih, imapPort |-> ip, pop3Host |-> ph, pop3Port |-> pp,
     smtpHost |-> sh, smtpPort |-> sp, password |-> "", action |-> Undefined]

WithPassword(r, pw) == [r EXCEPT !.password = pw]

\* The fields each handler destructures from req.body, and fetchProtocol,
\* which a client sends with every request of an account; the others are unread.
TestConnectionRequests ==
    {WithPassword(Request("test-connection", e, p, ih, ip, ph, pp, sh, sp), pw) :
        e \in HandlerEmails, p \in Protocols,
        ih \in UserHosts, ip \in UserImapPorts,
        ph \in UserHosts, pp \in UserPop3Ports,
        sh \in UserHosts, sp \in UserSmtpPorts, pw \in Passwords}
FetchEmailsRequests ==
    {WithPassword(Request("fetch-emails", e, p, ih, ip, ph, pp, Undefined, NoPort), pw) :
        e \in HandlerEmails, p \in Protocols,
        ih \in UserHosts, ip \in UserImapPorts,
        ph \in UserHosts, pp \in UserPop3Ports, pw \in Passwords}
SendEmailRequests ==
    {WithPassword(
        Request("send-email", e, Undefined, Undefined, NoPort, Undefined, NoPort, sh, sp), pw) :
        e \in HandlerEmails, sh \in UserHosts, sp \in UserSmtpPorts, pw \in Passwords}
MarkReadRequests ==
    {WithPassword(Request("mark-read", e, p, ih, ip, Undefined, NoPort, Undefined, NoPort), pw) :
        e \in HandlerEmails, p \in Protocols, ih \in UserHosts, ip \in UserImapPorts,
        pw \in Passwords}
GetFoldersRequests ==
    {WithPassword(Request("get-folders", e, p, ih, ip, Undefined, NoPort, Undefined, NoPort), pw) :
        e \in HandlerEmails, p \in Protocols, ih \in UserHosts, ip \in UserImapPorts,
        pw \in Passwords}
\* { email, action, accountData }; a password in the body is not read.
CustomApiCallRequests ==
    {[WithPassword(
        Request("custom-api-call", e, Undefined, Undefined, NoPort, Undefined, NoPort,
                Undefined, NoPort), pw) EXCEPT !.action = a] :
        e \in HandlerEmails, a \in Actions, pw \in Passwords}

\* ------------------------------------------------------------------ validation

\* One entry of errors.array(): the offending value, the message, the field.
ValidationError(value, msg, path) ==
    "{\"value\":\"" \o value \o "\",\"msg\":\"" \o msg \o "\",\"path\":\"" \o path \o "\"}"

\* body('email').isEmail()
EmailErrors(r) ==
    IF IsEmail(r.email) THEN <<>>
    ELSE <<ValidationError(r.email, "Invalid email", "email")>>

\* body('password').notEmpty(); the other validated fields of send-email (to,
\* subject, text) and mark-read (messageIds) are taken as well-formed.
PasswordErrors(r) ==
    IF r.password # "" THEN <<>>
    ELSE <<ValidationError(r.password, "Password must not be empty", "password")>>

\* body('action').notEmpty()
ActionErrors(r) ==
    IF r.action # "" THEN <<>>
    ELSE <<ValidationError(r.action, "Action is missing", "action")>>

\* validationResult(req).array() of the route's validator chain.
ValidationErrors(r) ==
    IF r.op = "custom-api-call" THEN EmailErrors(r) \o ActionErrors(r)
    ELSE EmailErrors(r) \o PasswordErrors(r)

\* JSON.stringify(errors.array())
StringifyErrors(r) == "[" \o Join(ValidationErrors(r), ",") \o "]"

IsValid(r) == ValidationErrors(r) = <<>>

\* ------------------------------------------------------------------ settings

\* providerSettings ? providerSettings.<proto>.host : <proto>Host
FinalHostPreferUser(ps, proto, userHost) ==
    IF ~FalsyStr(userHost) THEN userHost
    ELSE IF ps.kind = "profile" THEN ps.profile[proto].host ELSE userHost

FinalHost(ps, proto, userHost) ==
    IF ps.kind = "profile" THEN ps.profile[proto].host ELSE userHost

FinalPort(ps, proto, userPort) ==
    IF ps.kind = "profile" THEN ps.profile[proto].port ELSE userPort

UserHost(r, proto) ==
    CASE proto = "imap" -> r.imapHost
      [] proto = "pop3" -> r.pop3Host
      [] proto = "smtp" -> r.smtpHost

UserPort(r, proto) ==
    CASE proto = "imap" -> r.imapPort
      [] proto = "pop3" -> r.pop3Port
      [] proto = "smtp" -> r.smtpPort

ResolvedHost(r, proto) == FinalHost(GetProviderSettings(r.email), proto, UserHost(r, proto))
ResolvedPort(r, proto) == FinalPort(GetProviderSettings(r.email), proto, UserPort(r, proto))

\* test-connection's check of the receive settings: !host || !port
SettingsMissingHostOnly(host, port) == FalsyStr(host)

SettingsMissing(host, port) == FalsyStr(host) \/ FalsyNum(port)

\* ------------------------------------------------------------------ adapters

\* One adapter invocation with the host and port it was handed; the adapter
\* itself (emailUtils.js) settles it later as resolved or rejected.
Call(adapter, host, port) ==
    [adapter |-> adapter, host |-> host, port |-> port, state |-> "pending", msg |-> Null]

Settle(cs, ok, msg) ==
    [cs EXCEPT ![Len(cs)] =
        [@ EXCEPT !.state = IF ok THEN "resolved" ELSE "rejected",
                  !.msg = IF ok THEN Null ELSE msg]]

ProtoOf(adapter) ==
    CASE adapter \in {"testImapConnection", "fetchImapEmails", "markAsRead", "getFolders"} -> "imap"
      [] adapter \in {"testPop3Connection", "fetchPop3Emails"} -> "pop3"
      [] adapter \in {"testSmtpConnection", "sendEmail"} -> "smtp"

\* ------------------------------------------------------------------ responses

MsgImapSettingsManual == "Could not determine IMAP server settings. Please specify host and port manually."
MsgPop3SettingsManual == "Could not determine POP3 server settings. Please specify host and port manually."
MsgImapSettings == "Could not determine IMAP server settings."
MsgPop3Settings == "Could not determine POP3 server settings."
MsgSmtpSettings == "Could not determine SMTP server settings."
MsgUnknownProtocol == "Unknown receive protocol."
SettingsMsgs ==
    {MsgImapSettingsManual, MsgPop3SettingsManual, MsgImapSettings, MsgPop3Settings,
     MsgSmtpSettings}

\* { success: false, error: msg }
Failure(msg) == Put(Put(EmptyObject, "success", FALSE), "error", msg)
\* { success: false, errors: errors.array() }
ValidationFailure == Put(Put(EmptyObject, "success", FALSE), "errors", "validation errors")

\* The aggregate response of test-connection.
TestConnectionResultCollapsed(proto, fr, sr, es) ==
    Put(Put(EmptyObject, "success", fr /\ sr),
        "error", IF Len(es) > 0 THEN Join(es, ", ") ELSE Null)

TestConnectionResultEither(proto, fr, sr, es) ==
    Put(Put(Put(Put(EmptyObject, "success", fr \/ sr), KeyOf(proto), fr), "smtp", sr),
        "error", IF Len(es) > 0 THEN Join(es, ", ") ELSE Null)

TestConnectionResultNullError(proto, fr, sr, es) ==
    Put(Put(Put(Put(EmptyObject, "success", fr /\ sr), KeyOf(proto), fr), "smtp", sr),
        "error", Null)

TestConnectionResult(proto, fr, sr, es) ==
    Put(Put(Put(Put(EmptyObject, "success", fr /\ sr), KeyOf(proto), fr), "smtp", sr),
        "error", IF Len(es) > 0 THEN Join(es, ", ") ELSE Null)

\* ------------------------------------------------------------------ message dates

\* A message's Date header as a day of one year, or none.
Date(m, d) == [kind |-> "date", m |-> m, d |-> d]
NoDate == [kind |-> "none", m |-> 0, d |-> 0]
\* 2 Jan, 1 Feb, 13 Jan and 3 Mar.
Dates == {Date(1, 2), Date(2, 1), Date(1, 13), Date(3, 3)}

\* Chronological position of a message date (a missing date has none).
TimeOf(date) == date.m * 31 + date.d

\* The date field of a message summary: the text "DD.MM.YYYY, HH:MM:SS" that
\* toLocaleString('ru-RU') prints (its first number dd, its second mm), the
\* text 'unknown' for a message without a date, or not yet assigned.
DateText(dd, mm) == [kind |-> "text", dd |-> dd, mm |-> mm]
UnknownText == [kind |-> "unknown", dd |-> 0, mm |-> 0]
NotAssigned == [kind |-> "undefined", dd |-> 0, mm |-> 0]

\* parsed.date ? new Date(parsed.date).toLocaleString('ru-RU') : 'unknown'
FormatDate(date) == IF date.kind = "date" THEN DateText(date.d, date.m) ELSE UnknownText

\* new Date(text).getTime() as the engine's legacy date parser reads the text:
\* of "a.b.yyyy" the first number is the month and the second the day; a
\* month above 12, other text and undefined give NaN.
NaN == -1
ParseDateText(t) ==
    IF t.kind = "text" /\ t.dd <= 12 THEN t.dd * 31 + t.mm ELSE NaN

\* (a, b) => new Date(b.date) - new Date(a.date), a NaN result read as +0 by sort.
SortCompare(a, b) ==
    IF ParseDateText(a.date) = NaN \/ ParseDateText(b.date) = NaN THEN 0
    ELSE ParseDateText(b.date) - ParseDateText(a.date)

\* ------------------------------------------------------------------ Array.prototype.sort

\* The engine's sort on a short array: find the initial run (reversing a
\* strictly descending one), then binary insertion of the remaining elements.
\* Positions are 0-based as in the engine; a[p + 1] is the element at position p.
RECURSIVE RunExtend(_, _, _, _, _)
RunExtend(a, idx, high, isDescending, runLength) ==
    IF idx >= high THEN runLength
    ELSE LET order == SortCompare(a[idx + 1], a[idx])
         IN  IF (isDescending /\ order >= 0) \/ (~isDescending /\ order < 0)
             THEN runLength
             ELSE RunExtend(a, idx + 1, high, isDescending, runLength + 1)

Reverse(a) == [i \in 1..Len(a) |-> a[Len(a) + 1 - i]]

\* CountAndMakeRun over the whole array (length >= 2): the run's length and the array.
CountAndMakeRun(a) ==
    LET isDescending == SortCompare(a[2], a[1]) < 0
        runLength == RunExtend(a, 2, Len(a), isDescending, 2)
    IN  [len |-> runLength,
         arr |-> IF isDescending
                 THEN Reverse(SubSeq(a, 1, runLength)) \o SubSeq(a, runLength + 1, Len(a))
                 ELSE a]

RECURSIVE BinarySearch(_, _, _, _)
BinarySearch(a, pivot, left, right) ==
    IF left >= right THEN left
    ELSE LET mid == left + ((right - left) \div 2)
         IN  IF SortCompare(pivot, a[mid + 1]) < 0
             THEN BinarySearch(a, pivot, left, mid)
             ELSE BinarySearch(a, pivot, mid + 1, right)

\* Move the element at position start to position left, shifting the rest up.
InsertAt(a, start, left) ==
    SubSeq(a, 1, left) \o <<a[start + 1]>> \o SubSeq(a, left + 1, start)
        \o SubSeq(a, start + 2, Len(a))

RECURSIVE BinaryInsertionSort(_, _, _)
BinaryInsertionSort(a, start, high) ==
    IF start >= high THEN a
    ELSE BinaryInsertionSort(
             InsertAt(a, start, BinarySearch(a, a[start + 1], 0, start)), start + 1, high)

ArraySort(a) ==
    IF Len(a) < 2 THEN a
    ELSE LET run == CountAndMakeRun(a)
         IN  BinaryInsertionSort(run.arr, run.len, Len(a))

\* ------------------------------------------------------------------ mailbox trees

MaxDepth == 3
MaxSiblings == 2

\* The children field of a mailbox: null, or an object of mailboxes (maybe empty).
NoChildren == [present |-> FALSE, list |-> <<>>]
Children(list) == [present |-> TRUE, list |-> list]

\* One entry of a boxes object; a boxes object is the sequence of its entries
\* in the order for...in enumerates its keys.
Box(name, delimiter, children) ==
    [name |-> name, delimiter |-> delimiter, children |-> children]

Delimiters == {"/", "."}
LevelNames(d) == IF d = 1 THEN {"A"} ELSE IF d = 2 THEN {"B", "C"} ELSE {"D"}

\* Key lists of an object: no key twice.
NameSeqs(d) ==
    {ns \in UNION {[1..w -> LevelNames(d)] : w \in 0..MaxSiblings} :
        \A i, j \in 1..Len(ns) : i # j => ns[i] # ns[j]}

RECURSIVE BoxesAt(_)
BoxesAt(d) ==
    LET kids == IF d >= MaxDepth THEN {NoChildren}
                ELSE {NoChildren} \cup {Children(l) : l \in BoxesAt(d + 1)}
    IN  UNION {{[i \in 1..Len(ns) |-> Box(ns[i], f[i][1], f[i][2])] :
                    f \in [1..Len(ns) -> Delimiters \X kids]} : ns \in NameSeqs(d)}

\* fullName + boxes[name].delimiter
ChildPrefixBare(fullName, entry) == fullName

ChildPrefix(fullName, entry) == fullName \o entry.delimiter

RECURSIVE ExtractFolderNames(_, _)
ExtractFolderNames(bs, prefix) ==
    IF Len(bs) = 0 THEN <<>>
    ELSE LET entry == Head(bs)
             fullName == prefix \o entry.name
         IN  <<[name |-> fullName, delimiter |-> entry.delimiter,
                children |-> entry.children]>>
             \o (IF entry.children.present
                 THEN ExtractFolderNames(entry.children.list, ChildPrefix(fullName, entry))
                 ELSE <<>>)
             \o ExtractFolderNames(Tail(bs), prefix)

NoFolderList == [called |-> FALSE, value |-> <<>>]

FoldersIdle ==
    /\ boxes = <<>>
    /\ folderList = NoFolderList

\* ------------------------------------------------------------------ makeAPICallWithRetry

MaxRetriesBound == 4

\* What one await of makeSecureAPICall ends in: the { success: true, ... } or
\* { success: false, ... } object it returns, or an exception. It catches its
\* own request errors, so an exception needs its own logging to fail.
ApiSuccess == [kind |-> "result", success |-> TRUE, status |-> 200]
ApiFailures ==
    {[kind |-> "result", success |-> FALSE, status |-> 503],
     [kind |-> "result", success |-> FALSE, status |-> 0]}
ApiThrown == [kind |-> "thrown", success |-> FALSE, status |-> 0]
ApiOutcomes == {ApiSuccess, ApiThrown} \cup ApiFailures
ApiPending == [kind |-> "pending", success |-> FALSE, status |-> 0]

NoLastError == [kind |-> "undefined", success |-> FALSE, status |-> 0]
NotReturned == [kind |-> "none"]

RECURSIVE Pow2(_)
Pow2(k) == IF k = 0 THEN 1 ELSE 2 * Pow2(k - 1)

\* A delay that grows by one second per attempt.
RetryDelayLinear(k) == k * 1000

\* Math.pow(2, attempt) * 1000
RetryDelay(k) == Pow2(k) * 1000

\* { success: false, error: 'Max retries exceeded', lastError, attempts: maxRetries }
MaxRetriesExceeded(last, n) ==
    [kind |-> "exhausted", success |-> FALSE, error |-> "Max retries exceeded",
     lastError |-> last, attempts |-> n]

RetryIdle ==
    /\ maxRetries = 0
    /\ attempt = 0
    /\ apiCalls = <<>>
    /\ waits = <<>>
    /\ lastError = NoLastError
    /\ retryPc = "idle"
    /\ retryResult = NotReturned

FetchIdle ==
    /\ fOp = "none"
    /\ fArgs = <<>>
    /\ fCount = 0
    /\ box = <<>>
    /\ stage = "idle"
    /\ msgs = <<>>
    /\ fetched = 0
    /\ emails = <<>>
    /\ emailData = <<>>
    /\ promise = "none"
    /\ result = <<>>
    /\ released = 0
    /\ wire = <<>>
    /\ logged = 0
    /\ errEvents = 0
    /\ arrival = <<>>

HandlerIdle ==
    /\ pc = "idle"
    /\ req = [op |-> "none"]
    /\ resp = NoResponse
    /\ pending = NoResponse
    /\ calls = <<>>
    /\ errs = <<>>
    /\ fetchResult = FALSE
    /\ smtpResult = FALSE
    /\ logs = <<>>
    /\ console = <<>>
    /\ outbound = <<>>

\* ------------------------------------------------------------------ log lines

UpperChar(c) ==
    IF \E k \in DOMAIN LowerOf : LowerOf[k] = c
    THEN CHOOSE k \in DOMAIN LowerOf : LowerOf[k] = c
    ELSE c

RECURSIVE ToUpperCase(_)
ToUpperCase(s) ==
    IF Len(s) = 0 THEN ""
    ELSE UpperChar(SubSeq(s, 1, 1)) \o ToUpperCase(SubSeq(s, 2, Len(s)))

\* JSON text of a boolean and of a number.
BoolText(b) == IF b THEN "true" ELSE "false"
NumText(n) == ToString(n)

\* What a request contributes to log lines and report payloads that name the
\* user: ${email}.
LogSubjectWithSecret(r) == r.email \o ":" \o r.password

LogSubject(r) == r.email

\* messageIds.length, and the fixed recipient and subject of send-email.
MessageIdCount == "1"
MailTo == "to@example.org"
MailSubject == "Hello"

\* logger.warn of a failed validation.
ValidationLine(r) ==
    (CASE r.op = "custom-api-call" -> "Validation error on API call: "
       [] r.op = "test-connection" -> "Validation error while testing the connection: "
       [] r.op = "fetch-emails" -> "Validation error while fetching emails: "
       [] r.op = "send-email" -> "Validation error while sending an email: "
       [] r.op = "mark-read" -> "Validation error while marking emails as read: "
       [] r.op = "get-folders" -> "Validation error while listing folders: ")
    \o StringifyErrors(r)

\* logger.error of unresolved settings.
SettingsLine(r, proto) ==
    "Could not determine " \o ToUpperCase(proto) \o " settings for " \o LogSubject(r) \o "."

\* logger.info at the start of a handler.
StartLine(r) ==
    CASE r.op = "custom-api-call" ->
            "User " \o LogSubject(r) \o " calls the API with action: " \o r.action
      [] r.op = "fetch-emails" ->
            "User " \o LogSubject(r) \o " is trying to fetch emails over "
                \o ToUpperCase(r.fetchProtocol) \o "."
      [] r.op = "send-email" ->
            "User " \o LogSubject(r) \o " is trying to send an email to " \o MailTo
                \o " with subject \"" \o MailSubject \o "\"."
      [] r.op = "mark-read" ->
            "User " \o LogSubject(r) \o " marks " \o MessageIdCount \o " emails as read."
      [] r.op = "get-folders" ->
            "User " \o LogSubject(r) \o " requests the folder list."

\* logger.info after the adapter resolved (n: emails.length, folders.length).
SuccessLine(r, n) ==
    CASE r.op = "fetch-emails" ->
            "Got " \o NumText(n) \o " emails for " \o LogSubject(r) \o " via "
                \o ToUpperCase(r.fetchProtocol) \o "."
      [] r.op = "send-email" ->
            "Email from " \o LogSubject(r) \o " to " \o MailTo \o " sent successfully."
      [] r.op = "mark-read" ->
            "Emails for " \o LogSubject(r) \o " marked as read."
      [] r.op = "get-folders" ->
            "Got " \o NumText(n) \o " folders for " \o LogSubject(r) \o "."

\* logger.error of a catch block (msg: error.message).
CatchLine(r, msg) ==
    CASE r.op = "custom-api-call" ->
            "Error calling the external API for " \o LogSubject(r) \o ": " \o msg
      [] r.op = "fetch-emails" ->
            "Error fetching emails (" \o ToUpperCase(r.fetchProtocol) \o ") for "
                \o LogSubject(r) \o ": " \o msg
      [] r.op = "send-email" ->
            "Error sending an email from " \o LogSubject(r) \o ": " \o msg
      [] r.op = "mark-read" ->
            "Error marking emails as read for " \o LogSubject(r) \o ": " \o msg
      [] r.op = "get-folders" ->
            "Error listing folders for " \o LogSubject(r) \o ": " \o msg

\* logger.error of a failed leg of test-connection (leg: "IMAP", "POP3", "SMTP").
LegErrorLine(r, leg, msg) == leg \o " error for " \o LogSubject(r) \o ": " \o msg

TestedLine(r) == "Connection for " \o LogSubject(r) \o " tested successfully."

\* ------------------------------------------------------------------ apiClient.js

\* config.LOGGING
LogToAPI == TRUE
LogEvents ==
    {"connection_test", "connection_result", "emails_fetched", "email_sent",
     "api_call", "error", "login_attempt", "logout"}

MsgExternalApi == "External API call failed."
ApiErrMsgs == {"timeout of 10000ms exceeded", "Request failed with status code 503"}

\* A filter that takes an action for configured when a configured name is part
\* of it.
LogActivityCallByPart(action, data) ==
    LET listed == \E e \in LogEvents : Includes(action, e)
    IN  [fn |-> "logActivity", action |-> action,
         data |-> IF LogToAPI /\ listed THEN Put(data, "timestamp", "<now>") ELSE data,
         state |-> IF LogToAPI /\ listed THEN "posting" ELSE "skipped"]

\* One call of logActivity(action, data): it returns at once unless reporting
\* is on and the action is a configured event; otherwise it posts the payload.
LogActivityCall(action, data) ==
    [fn |-> "logActivity", action |-> action,
     data |-> IF LogToAPI /\ action \in LogEvents THEN Put(data, "timestamp", "<now>") ELSE data,
     state |-> IF ~LogToAPI THEN "skipped"
               ELSE IF action \notin LogEvents THEN "skipped"
               ELSE "posting"]

\* Whether logActivity's promise rejects: the catch block swallows a failed post.
LogActivityRejectsOnFailure(state, postOk) == state = "posting" /\ ~postOk

LogActivityRejects(state, postOk) == FALSE

\* The message of the error callCustomApi throws when its post failed.
CallCustomApiErrorRaw(msg) == msg

CallCustomApiError(msg) == MsgExternalApi

\* The payloads handed to logActivity.
EmailData(r) == Put(EmptyObject, "email", LogSubject(r))

TestConnectionData(r, fr, sr, es) ==
    IF fr /\ sr
    THEN Put(Put(EmailData(r), KeyOf(r.fetchProtocol), "true"), "smtp", "true")
    ELSE Put(Put(Put(EmailData(r), KeyOf(r.fetchProtocol), BoolText(fr)), "smtp", BoolText(sr)),
             "errors", Join(es, ", "))

SuccessAction(r) ==
    CASE r.op = "custom-api-call" -> "custom_api_call"
      [] r.op = "fetch-emails" -> "emails_fetched"
      [] r.op = "send-email" -> "email_sent_success"
      [] r.op = "mark-read" -> "emails_marked_read"
      [] r.op = "get-folders" -> "folders_fetched"

FailedAction(r) ==
    CASE r.op = "custom-api-call" -> "custom_api_call"
      [] r.op = "fetch-emails" -> "emails_fetch_failed"
      [] r.op = "send-email" -> "email_sent_failed"
      [] r.op = "mark-read" -> "emails_mark_read_failed"
      [] r.op = "get-folders" -> "folders_fetch_failed"

OperationData(r, n) ==
    CASE r.op = "custom-api-call" ->
            Put(Put(EmailData(r), "action", r.action), "success", "true")
      [] r.op = "fetch-emails" ->
            Put(Put(EmailData(r), "protocol", r.fetchProtocol), "count", NumText(n))
      [] r.op = "send-email" ->
            Put(Put(EmailData(r), "to", MailTo), "subject", MailSubject)
      [] r.op = "mark-read" -> Put(EmailData(r), "count", MessageIdCount)
      [] r.op = "get-folders" -> Put(EmailData(r), "count", NumText(n))

FailedData(r, msg) ==
    CASE r.op = "custom-api-call" ->
            Put(Put(Put(EmailData(r), "action", r.action), "success", "false"), "error", msg)
      [] r.op = "fetch-emails" ->
            Put(Put(EmailData(r), "protocol", r.fetchProtocol), "error", msg)
      [] r.op = "get-folders" -> Put(EmailData(r), "error", msg)
      [] OTHER -> Put(OperationData(r, 0), "error", msg)

\* The response of a catch block.
CatchResponse(r, msg) ==
    IF r.op = "custom-api-call" THEN Json(500, Failure(MsgExternalApi))
    ELSE Json(200, Failure(msg))

\* ------------------------------------------------------------------ handlers

RespondNow(status, body, lines) ==
    /\ resp' = Json(status, body)
    /\ pc' = "done"
    /\ logs' = logs \o lines
    /\ UNCHANGED <<pending, calls, errs, fetchResult, smtpResult, console, outbound>>

\* A handler that starts the adapter a second time.
InvokeAgain(adapter, host, port, lines) ==
    /\ calls' = calls \o <<Settle(<<Call(adapter, host, port)>>, FALSE, "retry")[1],
                           Call(adapter, host, port)>>
    /\ pc' = "adapter"
    /\ logs' = logs \o lines
    /\ UNCHANGED <<resp, pending, errs, fetchResult, smtpResult, console, outbound>>

\* The handler invokes its one adapter and awaits it.
Invoke(adapter, host, port, lines) ==
    /\ calls' = Append(calls, Call(adapter, host, port))
    /\ pc' = "adapter"
    /\ logs' = logs \o lines
    /\ UNCHANGED <<resp, pending, errs, fetchResult, smtpResult, console, outbound>>

\* The handler calls logActivity with the response already decided and
\* sends it once logActivity has returned.
ReportThenRespond(response, lines, action, data) ==
    /\ pending' = response
    /\ pc' = "log"
    /\ logs' = logs \o lines
    /\ outbound' = Append(outbound, LogActivityCall(action, data))
    /\ UNCHANGED <<resp, errs, fetchResult, smtpResult, console>>

\* try { await adapter; ...; logActivity(success) } catch { ...; logActivity(failed) }
AdapterSettled(ok, msg, n, body) ==
    /\ pc = "adapter"
    /\ calls' = Settle(calls, ok, msg)
    /\ IF ok
       THEN ReportThenRespond(Json(200, body), <<SuccessLine(req, n)>>,
                              SuccessAction(req), OperationData(req, n))
       ELSE ReportThenRespond(CatchResponse(req, msg), <<CatchLine(req, msg)>>,
                              FailedAction(req), FailedData(req, msg))
    /\ UNCHANGED <<rvars, fvars, req>>

SmtpCall(r) == Call("testSmtpConnection", ResolvedHost(r, "smtp"), ResolvedPort(r, "smtp"))

\* What test-connection does once the receive leg is over (or was never
\* started because the protocol is unknown): it runs the SMTP check.
AfterReceiveLegSkipOnFailure(r, cs, es, recvOk) ==
    IF recvOk
    THEN [calls |-> Append(cs, SmtpCall(r)), pc |-> "tc_smtp", pending |-> NoResponse,
          reports |-> <<>>]
    ELSE [calls |-> cs, pc |-> "log",
          pending |-> Json(200, TestConnectionResult(r.fetchProtocol, FALSE, FALSE, es)),
          reports |-> <<LogActivityCall("connection_test_failed",
                                        TestConnectionData(r, FALSE, FALSE, es))>>]

AfterReceiveLeg(r, cs, es, recvOk) ==
    [calls |-> Append(cs, SmtpCall(r)), pc |-> "tc_smtp", pending |-> NoResponse,
     reports |-> <<>>]

ReceivePrefix(proto) == IF proto = "imap" THEN "IMAP: " ELSE "POP3: "

TestConnection(r) ==
    /\ pc = "idle"
    /\ r \in TestConnectionRequests
    /\ req' = r
    /\ IF ~IsValid(r)
       THEN RespondNow(400, ValidationFailure, <<ValidationLine(r)>>)
       ELSE IF r.fetchProtocol = "imap"
       THEN IF SettingsMissing(ResolvedHost(r, "imap"), ResolvedPort(r, "imap"))
            THEN RespondNow(200, Failure(MsgImapSettingsManual), <<SettingsLine(r, "imap")>>)
            ELSE /\ calls' = <<Call("testImapConnection",
                                    ResolvedHost(r, "imap"), ResolvedPort(r, "imap"))>>
                 /\ pc' = "tc_receive"
                 /\ UNCHANGED <<resp, pending, errs, fetchResult, smtpResult,
                                logs, console, outbound>>
       ELSE IF r.fetchProtocol = "pop3"
       THEN IF SettingsMissing(ResolvedHost(r, "pop3"), ResolvedPort(r, "pop3"))
            THEN RespondNow(200, Failure(MsgPop3SettingsManual), <<SettingsLine(r, "pop3")>>)
            ELSE /\ calls' = <<Call("testPop3Connection",
                                    ResolvedHost(r, "pop3"), ResolvedPort(r, "pop3"))>>
                 /\ pc' = "tc_receive"
                 /\ UNCHANGED <<resp, pending, errs, fetchResult, smtpResult,
                                logs, console, outbound>>
       ELSE LET next == AfterReceiveLeg(r, <<>>, <<MsgUnknownProtocol>>, FALSE)
            IN  /\ errs' = <<MsgUnknownProtocol>>
                /\ calls' = next.calls
                /\ pc' = next.pc
                /\ pending' = next.pending
                /\ outbound' = outbound \o next.reports
                /\ UNCHANGED <<resp, fetchResult, smtpResult, logs, console>>
    /\ UNCHANGED <<rvars, fvars>>

TestConnectionReceiveSettled(ok, msg) ==
    /\ pc = "tc_receive"
    /\ LET es == IF ok THEN errs
                 ELSE Append(errs, ReceivePrefix(req.fetchProtocol) \o msg)
           next == AfterReceiveLeg(req, Settle(calls, ok, msg), es, ok)
       IN  /\ fetchResult' = ok
           /\ errs' = es
           /\ calls' = next.calls
           /\ pc' = next.pc
           /\ pending' = next.pending
           /\ outbound' = outbound \o next.reports
           /\ logs' = IF ok THEN logs
                      ELSE Append(logs, LegErrorLine(req, ToUpperCase(req.fetchProtocol), msg))
    /\ UNCHANGED <<rvars, fvars, req, resp, smtpResult, console>>

TestConnectionSmtpSettled(ok, msg) ==
    /\ pc = "tc_smtp"
    /\ LET es == IF ok THEN errs ELSE Append(errs, "SMTP: " \o msg)
       IN  /\ smtpResult' = ok
           /\ errs' = es
           /\ calls' = Settle(calls, ok, msg)
           /\ pending' = Json(200, TestConnectionResult(req.fetchProtocol, fetchResult, ok, es))
           /\ logs' = logs
                  \o (IF ok THEN <<>> ELSE <<LegErrorLine(req, "SMTP", msg)>>)
                  \o (IF fetchResult /\ ok THEN <<TestedLine(req)>> ELSE <<>>)
           /\ outbound' = Append(outbound,
                  LogActivityCall(IF fetchResult /\ ok THEN "connection_test_success"
                                  ELSE "connection_test_failed",
                                  TestConnectionData(req, fetchResult, ok, es)))
           /\ pc' = "log"
    /\ UNCHANGED <<rvars, fvars, req, resp, fetchResult, console>>

FetchEmails(r) ==
    /\ pc = "idle"
    /\ r \in FetchEmailsRequests
    /\ req' = r
    /\ IF ~IsValid(r)
       THEN RespondNow(400, ValidationFailure, <<ValidationLine(r)>>)
       ELSE IF r.fetchProtocol = Undefined
       THEN \* fetchProtocol.toUpperCase() raises outside the try block
            /\ pc' = "thrown"
            /\ UNCHANGED <<resp, pending, calls, errs, fetchResult, smtpResult,
                           logs, console, outbound>>
       ELSE IF r.fetchProtocol = "imap"
       THEN IF FalsyStr(ResolvedHost(r, "imap"))
            THEN RespondNow(200, Failure(MsgImapSettings), <<StartLine(r)>>)
            ELSE Invoke("fetchImapEmails", ResolvedHost(r, "imap"), ResolvedPort(r, "imap"),
                        <<StartLine(r)>>)
       ELSE IF r.fetchProtocol = "pop3"
       THEN IF FalsyStr(ResolvedHost(r, "pop3"))
            THEN RespondNow(200, Failure(MsgPop3Settings), <<StartLine(r)>>)
            ELSE Invoke("fetchPop3Emails", ResolvedHost(r, "pop3"), ResolvedPort(r, "pop3"),
                        <<StartLine(r)>>)
       ELSE /\ ReportThenRespond(CatchResponse(r, MsgUnknownProtocol),
                                 <<StartLine(r), CatchLine(r, MsgUnknownProtocol)>>,
                                 FailedAction(r), FailedData(r, MsgUnknownProtocol))
            /\ UNCHANGED calls
    /\ UNCHANGED <<rvars, fvars>>

FetchEmailsSettled(ok, msg, n) ==
    /\ req.op = "fetch-emails"
    /\ AdapterSettled(ok, msg, n,
            Put(Put(Put(EmptyObject, "success", TRUE), "emails", "emails"), "count", n))

SendEmail(r) ==
    /\ pc = "idle"
    /\ r \in SendEmailRequests
    /\ req' = r
    /\ IF ~IsValid(r)
       THEN RespondNow(400, ValidationFailure, <<ValidationLine(r)>>)
       ELSE IF FalsyStr(ResolvedHost(r, "smtp"))
       THEN RespondNow(200, Failure(MsgSmtpSettings), <<StartLine(r), SettingsLine(r, "smtp")>>)
       ELSE Invoke("sendEmail", ResolvedHost(r, "smtp"), ResolvedPort(r, "smtp"),
                   <<StartLine(r)>>)
    /\ UNCHANGED <<rvars, fvars>>

SendEmailSettled(ok, msg) ==
    /\ req.op = "send-email"
    /\ AdapterSettled(ok, msg, 0,
            Put(Put(EmptyObject, "success", TRUE), "message", "Email sent successfully"))

MarkRead(r) ==
    /\ pc = "idle"
    /\ r \in MarkReadRequests
    /\ req' = r
    /\ IF ~IsValid(r)
       THEN RespondNow(400, ValidationFailure, <<ValidationLine(r)>>)
       ELSE IF FalsyStr(ResolvedHost(r, "imap"))
       THEN RespondNow(200, Failure(MsgImapSettings), <<StartLine(r), SettingsLine(r, "imap")>>)
       ELSE Invoke("markAsRead", ResolvedHost(r, "imap"), ResolvedPort(r, "imap"),
                   <<StartLine(r)>>)
    /\ UNCHANGED <<rvars, fvars>>

MarkReadSettled(ok, msg) ==
    /\ req.op = "mark-read"
    /\ AdapterSettled(ok, msg, 0,
            Put(Put(EmptyObject, "success", TRUE), "message", "Messages marked as read"))

\* { success: true, folders: [] } for a POP3 account.
Pop3FoldersRejected == Failure("Operation not supported by protocol.")

Pop3Folders == Put(Put(EmptyObject, "success", TRUE), "folders", "[]")

Pop3FoldersLine(r) ==
    "Folder request for POP3 account " \o LogSubject(r) \o ". Returning an empty list."

GetFolders(r) ==
    /\ pc = "idle"
    /\ r \in GetFoldersRequests
    /\ req' = r
    /\ IF ~IsValid(r)
       THEN RespondNow(400, ValidationFailure, <<ValidationLine(r)>>)
       ELSE IF r.fetchProtocol = "pop3"
       THEN RespondNow(200, Pop3Folders, <<StartLine(r), Pop3FoldersLine(r)>>)
       ELSE IF FalsyStr(ResolvedHost(r, "imap"))
       THEN RespondNow(200, Failure(MsgImapSettings), <<StartLine(r), SettingsLine(r, "imap")>>)
       ELSE Invoke("getFolders", ResolvedHost(r, "imap"), ResolvedPort(r, "imap"),
                   <<StartLine(r)>>)
    /\ UNCHANGED <<rvars, fvars>>

GetFoldersSettled(ok, msg, n) ==
    /\ req.op = "get-folders"
    /\ AdapterSettled(ok, msg, n,
            Put(Put(EmptyObject, "success", TRUE), "folders", "folders"))

\* { email, action, data: accountData } handed to callCustomApi.
CustomApiPayload(r) ==
    Put(Put(Put(EmptyObject, "email", r.email), "action", r.action), "data", "accountData")

CustomApiCall(r) ==
    /\ pc = "idle"
    /\ r \in CustomApiCallRequests
    /\ req' = r
    /\ IF ~IsValid(r)
       THEN RespondNow(400, ValidationFailure, <<ValidationLine(r)>>)
       ELSE /\ logs' = Append(logs, StartLine(r))
            /\ outbound' = Append(outbound,
                   [fn |-> "callCustomApi", action |-> r.action,
                    data |-> CustomApiPayload(r), state |-> "posting"])
            /\ pc' = "api"
            /\ UNCHANGED <<resp, pending, calls, errs, fetchResult, smtpResult, console>>
    /\ UNCHANGED <<rvars, fvars>>

\* callCustomApi returns response.data, or logs the transport error to the
\* console and throws its own error; the handler's try or catch block follows.
CustomApiCallSettled(ok, msg) ==
    /\ pc = "api"
    /\ LET settled == [outbound EXCEPT ![Len(outbound)].state =
                                            IF ok THEN "posted" ELSE "failed"]
           error == CallCustomApiError(msg)
       IN  IF ok
           THEN /\ pending' = Json(200,
                        Put(Put(Put(EmptyObject, "success", TRUE), "data", "apiResult"),
                            "message", "API call handled successfully"))
                /\ outbound' = Append(settled,
                        LogActivityCall(SuccessAction(req), OperationData(req, 0)))
                /\ UNCHANGED <<logs, console>>
           ELSE /\ console' = Append(console, "Error calling the custom API: " \o msg)
                /\ logs' = Append(logs, CatchLine(req, error))
                /\ pending' = CatchResponse(req, error)
                /\ outbound' = Append(settled,
                        LogActivityCall(FailedAction(req), FailedData(req, error)))
    /\ pc' = "log"
    /\ UNCHANGED <<rvars, fvars, req, resp, calls, errs, fetchResult, smtpResult>>

\* await logActivity(...) is over: a post that was started has succeeded or
\* failed (postOk, msg). When logActivity returns, res.json(...) runs; were it
\* to reject, the exception would reach the enclosing catch block, or leave the
\* handler where there is none (test-connection, a catch block itself).
LogActivitySettled(postOk, msg) ==
    /\ pc = "log"
    /\ LET call == outbound[Len(outbound)]
           posting == call.state = "posting"
           settled == IF posting
                      THEN [outbound EXCEPT ![Len(outbound)].state =
                                                IF postOk THEN "posted" ELSE "failed"]
                      ELSE outbound
           printed == IF posting /\ ~postOk
                      THEN Append(console, "Error sending the log to the API: " \o msg)
                      ELSE console
       IN  IF ~LogActivityRejects(call.state, postOk)
           THEN /\ resp' = pending
                /\ pc' = "done"
                /\ outbound' = settled
                /\ console' = printed
                /\ UNCHANGED <<pending, logs>>
           ELSE IF req.op = "test-connection" \/ ~pending.body["success"]
           THEN /\ pc' = "thrown"
                /\ outbound' = settled
                /\ UNCHANGED <<resp, pending, logs, console>>
           ELSE /\ pending' = CatchResponse(req, msg)
                /\ logs' = Append(logs, CatchLine(req, msg))
                /\ outbound' = Append(settled,
                        LogActivityCall(FailedAction(req), FailedData(req, msg)))
                /\ pc' = "log"
                /\ UNCHANGED <<resp, console>>
    /\ UNCHANGED <<rvars, fvars, req, calls, errs, fetchResult, smtpResult>>

\* err.stack of the exception that left the handler.
ErrorStack(r) ==
    IF r.op = "fetch-emails"
    THEN "TypeError: Cannot read properties of undefined (reading 'toUpperCase')"
    ELSE "Error"

\* The handlers are async functions: an exception that leaves one rejects the
\* promise the handler returned. A framework that forwards that rejection to
\* next(err) runs the error middleware, which answers 500.
ErrorMiddleware ==
    /\ pc = "thrown"
    /\ resp' = Json(500, Failure("Internal server error"))
    /\ logs' = Append(logs, "Unhandled server error: " \o ErrorStack(req))
    /\ pc' = "done"
    /\ UNCHANGED <<rvars, fvars, req, pending, calls, errs, fetchResult, smtpResult,
                   console, outbound>>

\* A framework that ignores the handler's promise leaves the rejection
\* unhandled: the logger's rejectionHandlers print it, the process goes on
\* (exitOnError: false), and nothing is sent on the request.
UnhandledRejection ==
    /\ pc = "thrown"
    /\ logs' = Append(logs, "unhandledRejection: " \o ErrorStack(req))
    /\ pc' = "unanswered"
    /\ UNCHANGED <<rvars, fvars, req, resp, pending, calls, errs, fetchResult, smtpResult,
                   console, outbound>>

\* await fetchPop3Emails(...) never returns when the adapter's promise is left
\* pending: a RETR that failed, or a message that did not parse, on the last
\* retrieval settles nothing, so the handler stays at its await.
FetchPop3NeverSettles ==
    /\ pc = "adapter"
    /\ calls[Len(calls)].adapter = "fetchPop3Emails"
    /\ pc' = "awaiting forever"
    /\ UNCHANGED <<rvars, fvars, req, resp, pending, calls, errs, fetchResult, smtpResult,
                   logs, console, outbound>>

Init ==
    /\ rIn = ""
    /\ rOut = NotCalled
    /\ FoldersIdle
    /\ HandlerIdle
    /\ RetryIdle
    /\ FetchIdle

Next ==
    \/ \E r \in TestConnectionRequests : TestConnection(r)
    \/ \E ok \in BOOLEAN, msg \in ErrMsgs : TestConnectionReceiveSettled(ok, msg)
    \/ \E ok \in BOOLEAN, msg \in ErrMsgs : TestConnectionSmtpSettled(ok, msg)
    \/ \E r \in FetchEmailsRequests : FetchEmails(r)
    \/ \E ok \in BOOLEAN, msg \in ErrMsgs, n \in FetchedCounts : FetchEmailsSettled(ok, msg, n)
    \/ \E r \in SendEmailRequests : SendEmail(r)
    \/ \E ok \in BOOLEAN, msg \in ErrMsgs : SendEmailSettled(ok, msg)
    \/ \E r \in MarkReadRequests : MarkRead(r)
    \/ \E ok \in BOOLEAN, msg \in ErrMsgs : MarkReadSettled(ok, msg)
    \/ \E r \in GetFoldersRequests : GetFolders(r)
    \/ \E ok \in BOOLEAN, msg \in ErrMsgs, n \in FetchedCounts : GetFoldersSettled(ok, msg, n)
    \/ \E r \in CustomApiCallRequests : CustomApiCall(r)
    \/ \E ok \in BOOLEAN, msg \in ApiErrMsgs : CustomApiCallSettled(ok, msg)
    \/ \E postOk \in BOOLEAN, msg \in ApiErrMsgs : LogActivitySettled(postOk, msg)
    \/ ErrorMiddleware
    \/ UnhandledRejection
    \/ FetchPop3NeverSettles

InitResolve ==
    /\ rIn \in ResolveInputs
    /\ rOut = NotCalled
    /\ FoldersIdle
    /\ HandlerIdle
    /\ RetryIdle
    /\ FetchIdle

Resolve ==
    /\ rOut = NotCalled
    /\ rOut' = GetProviderSettings(rIn)
    /\ UNCHANGED <<rIn, boxes, folderList, avars, hvars, fvars>>

NextResolve == Resolve

\* getFolders hands the boxes it received to extractFolderNames.
InitFolders ==
    /\ rIn = ""
    /\ rOut = NotCalled
    /\ boxes \in BoxesAt(1)
    /\ folderList = NoFolderList
    /\ HandlerIdle
    /\ RetryIdle
    /\ FetchIdle

Extract ==
    /\ ~folderList.called
    /\ folderList' = [called |-> TRUE, value |-> ExtractFolderNames(boxes, "")]
    /\ UNCHANGED <<rIn, rOut, boxes, avars, hvars, fvars>>

NextFolders == Extract

\* The state at the first await of makeAPICallWithRetry(endpoint, data, method,
\* maxRetries): attempt 1 is under way, or, with no attempt to make, the
\* function has returned already.
InitRetry ==
    /\ rIn = ""
    /\ rOut = NotCalled
    /\ FoldersIdle
    /\ HandlerIdle
    /\ FetchIdle
    /\ maxRetries \in 0..MaxRetriesBound
    /\ waits = <<>>
    /\ lastError = NoLastError
    /\ IF maxRetries >= 1
       THEN /\ attempt = 1
            /\ apiCalls = <<ApiPending>>
            /\ retryPc = "calling"
            /\ retryResult = NotReturned
       ELSE /\ attempt = 1
            /\ apiCalls = <<>>
            /\ retryPc = "returned"
            /\ retryResult = MaxRetriesExceeded(NoLastError, maxRetries)

\* A test that no result passes.
ReportsSuccessNever(outcome) == FALSE

\* if (result.success), reached only when the await returned a result
ReportsSuccess(outcome) == outcome.kind = "result" /\ outcome.success

\* await makeSecureAPICall(...) is over. A successful result is returned; any
\* other outcome starts the delay timer, or, on the last attempt, is kept as
\* lastError and the loop ends.
AttemptSettled(outcome) ==
    /\ retryPc = "calling"
    /\ apiCalls' = [apiCalls EXCEPT ![Len(apiCalls)] = outcome]
    /\ IF ReportsSuccess(outcome)
       THEN /\ retryPc' = "returned"
            /\ retryResult' = outcome
            /\ UNCHANGED <<attempt, waits, lastError>>
       ELSE IF attempt < maxRetries
       THEN /\ lastError' = IF outcome.kind = "thrown" THEN outcome ELSE lastError
            /\ waits' = Append(waits, RetryDelay(attempt))
            /\ retryPc' = "waiting"
            /\ UNCHANGED <<attempt, retryResult>>
       ELSE /\ lastError' = outcome
            /\ attempt' = attempt + 1
            /\ retryPc' = "returned"
            /\ retryResult' = MaxRetriesExceeded(outcome, maxRetries)
            /\ UNCHANGED waits
    /\ UNCHANGED <<rIn, rOut, boxes, folderList, maxRetries, hvars, fvars>>

\* The setTimeout of the delay fires: continue, attempt++, the next call.
RetryTimerFired ==
    /\ retryPc = "waiting"
    /\ attempt' = attempt + 1
    /\ apiCalls' = Append(apiCalls, ApiPending)
    /\ retryPc' = "calling"
    /\ UNCHANGED <<rIn, rOut, boxes, folderList, maxRetries, waits, lastError, retryResult,
                   hvars, fvars>>

NextRetry ==
    \/ \E outcome \in ApiOutcomes : AttemptSettled(outcome)
    \/ RetryTimerFired

vars == <<rvars, hvars, fvars>>

SpecRetry == InitRetry /\ [][NextRetry]_vars

IsRetry == retryPc # "idle"

AttemptFailed(call) == call.kind = "thrown" \/ (call.kind = "result" /\ ~call.success)

\* C31: makeAPICallWithRetry makes at most maxRetries calls; every call but
\* the latest one has failed; a call that reported success is the latest one,
\* the function has returned, and what it returned is that call's result.
C31_RetryOnlyAfterFailure ==
    IsRetry =>
        /\ Len(apiCalls) <= maxRetries
        /\ \A k \in 1..(Len(apiCalls) - 1) : AttemptFailed(apiCalls[k])
        /\ \A k \in 1..Len(apiCalls) :
              apiCalls[k] = ApiSuccess =>
                  /\ k = Len(apiCalls)
                  /\ retryPc = "returned"
                  /\ retryResult = ApiSuccess

\* Two failures, then a success on the third of four allowed attempts.
C31_Witness ==
    /\ IsRetry
    /\ maxRetries = 4
    /\ Len(apiCalls) = 3
    /\ apiCalls[3] = ApiSuccess
    /\ retryPc = "returned"

\* Every request goes out with config.API.timeout, so every await of
\* makeSecureAPICall ends; a timer that was set fires.
SpecRetryLive ==
    /\ SpecRetry
    /\ WF_vars(\E outcome \in ApiOutcomes : AttemptSettled(outcome))
    /\ WF_vars(RetryTimerFired)


SpecFolders == InitFolders /\ [][NextFolders]_vars

Spec == Init /\ [][Next]_vars

SpecResolve == InitResolve /\ [][NextResolve]_vars

\* ------------------------------------------------------------------ fetch adapters

MaxTotal == 2
MaxCount == 3
MaxErrorEvents == 1

Mailboxes == UNION {[1..n -> Dates] : n \in 0..MaxTotal}

Min2(a, b) == IF a <= b THEN a ELSE b
Max2(a, b) == IF a >= b THEN a ELSE b

\* A settled promise ignores later resolve() and reject() calls.
ResolveWith(v) ==
    IF promise = "pending"
    THEN promise' = "resolved" /\ result' = v
    ELSE UNCHANGED <<promise, result>>

RejectCall ==
    IF promise = "pending"
    THEN promise' = "rejected" /\ UNCHANGED result
    ELSE UNCHANGED <<promise, result>>

\* The array a caller receives: the objects the ids refer to, as they are now.
Snapshot(ids, data) == [i \in 1..Len(ids) |-> data[ids[i]]]
Ids(entries) == [i \in 1..Len(entries) |-> entries[i].id]

WithEntry(data, id, entry) ==
    [x \in (DOMAIN data) \cup {id} |-> IF x = id THEN entry ELSE data[x]]

\* ---- markAsRead arguments, getBoxes answers

MessageIdLists == {<<7>>, <<7, 9>>, <<9, 8, 7>>}
ServerBoxes == BoxesAt(2)

\* ---- sendEmail arguments

Senders == {"u@gmail.com"}
Recipients == {"v@example.org"}
Subjects == {"Hi"}
Texts == {"", "one line", "a\nb", "\n", "a\n\nb\n", "a\r\nb"}

SendArgs ==
    {[from |-> f, to |-> t, subject |-> s, text |-> x] :
        f \in Senders, t \in Recipients, s \in Subjects, x \in Texts}

RECURSIVE ReplaceAll(_, _, _)
ReplaceAll(s, c, rep) ==
    IF Len(s) = 0 THEN ""
    ELSE (IF SubSeq(s, 1, 1) = c THEN rep ELSE SubSeq(s, 1, 1))
         \o ReplaceAll(SubSeq(s, 2, Len(s)), c, rep)

\* text.replace('\n', '<br>'): a string pattern replaces the first match only.
NewlineMarkupOnce(text) ==
    IF \E i \in 1..Len(text) : SubSeq(text, i, i) = "\n"
    THEN LET i == Min({k \in 1..Len(text) : SubSeq(text, k, k) = "\n"})
         IN  SubSeq(text, 1, i - 1) \o "<br>" \o SubSeq(text, i + 1, Len(text))
    ELSE text
\* text.replace(/\n/g, '<br>')
NewlineMarkup(text) == ReplaceAll(text, "\n", "<br>")

MailOptions(a) ==
    [from |-> a.from, to |-> a.to, subject |-> a.subject, text |-> a.text,
     html |-> NewlineMarkup(a.text)]

\* What the transport hands to the sendMail callback: (error, info).
NoTransportError == [message |-> Null]
TransportErrors == {[message |-> m] : m \in ErrMsgs}
TransportInfo(mail) == [accepted |-> mail.to, response |-> "250 OK"]

\* The state right after fetchImapEmails / fetchPop3Emails returned its
\* promise: the client is built and connect() has been called.
InitFetch ==
    /\ rIn = ""
    /\ rOut = NotCalled
    /\ FoldersIdle
    /\ HandlerIdle
    /\ RetryIdle
    /\ \/ /\ fOp \in {"imap", "pop3"}
          /\ fArgs = <<>>
          /\ fCount \in 0..MaxCount
          /\ box \in Mailboxes
          /\ stage = "connecting"
          /\ wire = <<>>
       \/ /\ fOp \in {"testImap", "testPop3"}
          /\ fArgs = <<>>
          /\ fCount = 0
          /\ box = <<>>
          /\ stage = "connecting"
          /\ wire = <<>>
       \/ /\ fOp = "markRead"
          /\ fArgs \in {[messageIds |-> ids] : ids \in MessageIdLists}
          /\ fCount = 0
          /\ box = <<>>
          /\ stage = "connecting"
          /\ wire = <<>>
       \/ /\ fOp = "getFolders"
          /\ fArgs = <<>>
          /\ fCount = 0
          /\ box = <<>>
          /\ stage = "connecting"
          /\ wire = <<>>
       \/ \* sendEmail calls transporter.sendMail before it returns
          /\ fOp = "send"
          /\ fArgs \in SendArgs
          /\ fCount = 0
          /\ box = <<>>
          /\ stage = "sending"
          /\ wire = <<MailOptions(fArgs)>>
    /\ msgs = <<>>
    /\ fetched = 0
    /\ emails = <<>>
    /\ emailData = <<>>
    /\ promise = "pending"
    /\ result = <<>>
    /\ released = 0
    /\ logged = 0
    /\ errEvents = 0
    /\ arrival = <<>>

\* ---- fetchImapEmails

\* The messages a FETCH start:end reaches: a sequence range is the numbers
\* between its two ends, whichever is larger, that exist in the mailbox.
RangeSet(start, end, total) ==
    {n \in 1..total : Min2(start, end) <= n /\ n <= Max2(start, end)}

\* A window that starts one message too early.
ImapStartOneEarly(count, total) == Max2(1, total - Min2(count, total))

ImapStart(count, total) == Max2(1, total - Min2(count, total) + 1)

\* 'ready': openBox(folder, true, cb) is called.
ImapReady ==
    /\ fOp = "imap"
    /\ stage = "connecting"
    /\ stage' = "opening"
    /\ UNCHANGED <<rvars, hvars, fOp, fArgs, fCount, box, msgs, fetched, emails, emailData,
                   promise, result, released, wire, logged, errEvents, arrival>>

\* The openBox callback.
ImapOpenBoxDone(ok) ==
    /\ fOp = "imap"
    /\ stage = "opening"
    /\ IF ~ok
       THEN /\ RejectCall
            /\ stage' = "failed"
            /\ UNCHANGED <<released, wire, msgs>>
       ELSE IF Len(box) = 0
       THEN /\ ResolveWith(<<>>)
            /\ released' = released + 1
            /\ stage' = "ended"
            /\ UNCHANGED <<wire, msgs>>
       ELSE /\ wire' = Append(wire, <<ImapStart(fCount, Len(box)), Len(box)>>)
            /\ msgs' = [n \in RangeSet(ImapStart(fCount, Len(box)), Len(box), Len(box))
                          |-> [body |-> "none", attrs |-> FALSE]]
            /\ stage' = "fetching"
            /\ UNCHANGED <<promise, result, released>>
    /\ UNCHANGED <<rvars, hvars, fOp, fArgs, fCount, box, fetched, emails, emailData,
                   logged, errEvents, arrival>>

\* 'message' and its 'body': emailData = {} is created and simpleParser starts.
ImapMessageBody(n) ==
    /\ fOp = "imap"
    /\ stage = "fetching"
    /\ n \in DOMAIN msgs
    /\ msgs[n].body = "none"
    /\ msgs' = [msgs EXCEPT ![n].body = "parsing"]
    /\ emailData' = WithEntry(emailData, n, [id |-> 0, date |-> NotAssigned, parsed |-> FALSE])
    /\ UNCHANGED <<rvars, hvars, fOp, fArgs, fCount, box, stage, fetched, emails,
                   promise, result, released, wire, logged, errEvents, arrival>>

\* The simpleParser callback of one message.
ImapParseDone(n, ok) ==
    /\ fOp = "imap"
    /\ n \in DOMAIN msgs
    /\ msgs[n].body = "parsing"
    /\ IF ok
       THEN /\ msgs' = [msgs EXCEPT ![n].body = "parsed"]
            /\ emailData' = [emailData EXCEPT ![n].date = FormatDate(box[n]),
                                              ![n].parsed = TRUE]
            /\ UNCHANGED logged
       ELSE /\ msgs' = [msgs EXCEPT ![n].body = "failed"]
            /\ logged' = logged + 1
            /\ UNCHANGED emailData
    /\ UNCHANGED <<rvars, hvars, fOp, fArgs, fCount, box, stage, fetched, emails,
                   promise, result, released, wire, errEvents, arrival>>

\* 'attributes' of one message (the library emits it after the body).
ImapMessageAttributes(n) ==
    /\ fOp = "imap"
    /\ stage = "fetching"
    /\ n \in DOMAIN msgs
    /\ msgs[n].body # "none"
    /\ ~msgs[n].attrs
    /\ msgs' = [msgs EXCEPT ![n].attrs = TRUE]
    /\ emailData' = [emailData EXCEPT ![n].id = n]
    /\ emails' = Append(emails, n)
    /\ arrival' = Append(arrival, n)
    /\ UNCHANGED <<rvars, hvars, fOp, fArgs, fCount, box, stage, fetched,
                   promise, result, released, wire, logged, errEvents>>

\* 'end' of the fetch: imap.end(), emails.sort(...), resolve(emails).
ImapFetchEnd ==
    /\ fOp = "imap"
    /\ stage = "fetching"
    /\ \A n \in DOMAIN msgs : msgs[n].attrs
    /\ released' = released + 1
    /\ emails' = Ids(ArraySort(Snapshot(emails, emailData)))
    /\ ResolveWith(ArraySort(Snapshot(emails, emailData)))
    /\ stage' = "ended"
    /\ UNCHANGED <<rvars, hvars, fOp, fArgs, fCount, box, msgs, fetched, emailData,
                   wire, logged, errEvents, arrival>>

\* 'error' of the fetch.
ImapFetchError ==
    /\ fOp = "imap"
    /\ stage = "fetching"
    /\ RejectCall
    /\ stage' = "failed"
    /\ UNCHANGED <<rvars, hvars, fOp, fArgs, fCount, box, msgs, fetched, emails, emailData,
                   released, wire, logged, errEvents, arrival>>

\* 'error' of the connection.
ImapError ==
    /\ fOp = "imap"
    /\ stage \in {"connecting", "opening", "fetching"}
    /\ errEvents < MaxErrorEvents
    /\ errEvents' = errEvents + 1
    /\ RejectCall
    /\ stage' = "failed"
    /\ UNCHANGED <<rvars, hvars, fOp, fArgs, fCount, box, msgs, fetched, emails, emailData,
                   released, wire, logged, arrival>>

\* ---- fetchPop3Emails

Pop3FetchCount == Min2(Len(box), fCount)

\* 'connect': login(email, password, cb) is called.
Pop3Connect ==
    /\ fOp = "pop3"
    /\ stage = "connecting"
    /\ stage' = "login"
    /\ UNCHANGED <<rvars, hvars, fOp, fArgs, fCount, box, msgs, fetched, emails, emailData,
                   promise, result, released, wire, logged, errEvents, arrival>>

\* The login callback.
Pop3LoginDone(ok) ==
    /\ fOp = "pop3"
    /\ stage = "login"
    /\ IF ok
       THEN /\ stage' = "stat"
            /\ UNCHANGED <<promise, result, released>>
       ELSE /\ released' = released + 1
            /\ RejectCall
            /\ stage' = "failed"
    /\ UNCHANGED <<rvars, hvars, fOp, fArgs, fCount, box, msgs, fetched, emails, emailData,
                   wire, logged, errEvents, arrival>>

\* The stat callback: on success the loop issues RETR 1..fetchCount.
Pop3StatDone(ok) ==
    /\ fOp = "pop3"
    /\ stage = "stat"
    /\ IF ~ok
       THEN /\ released' = released + 1
            /\ RejectCall
            /\ stage' = "failed"
            /\ UNCHANGED <<wire, msgs>>
       ELSE IF Pop3FetchCount = 0
       THEN /\ released' = released + 1
            /\ ResolveWith(<<>>)
            /\ stage' = "ended"
            /\ UNCHANGED <<wire, msgs>>
       ELSE /\ wire' = [i \in 1..Pop3FetchCount |-> i]
            /\ msgs' = [i \in 1..Pop3FetchCount |-> "requested"]
            /\ stage' = "retr"
            /\ UNCHANGED <<promise, result, released>>
    /\ UNCHANGED <<rvars, hvars, fOp, fArgs, fCount, box, fetched, emails, emailData,
                   logged, errEvents, arrival>>

\* The retr callback of index i.
Pop3RetrDone(i, ok) ==
    /\ fOp = "pop3"
    /\ i \in DOMAIN msgs
    /\ msgs[i] = "requested"
    /\ IF ok
       THEN /\ msgs' = [msgs EXCEPT ![i] = "parsing"]
            /\ UNCHANGED <<logged, fetched>>
       ELSE /\ msgs' = [msgs EXCEPT ![i] = "retr_failed"]
            /\ logged' = logged + 1
            /\ fetched' = fetched + 1
    /\ UNCHANGED <<rvars, hvars, fOp, fArgs, fCount, box, stage, emails, emailData,
                   promise, result, released, wire, errEvents, arrival>>

\* The id a loop variable shared by all callbacks would give: its value after
\* the loop.
Pop3EntryIdAfterLoop(i) == Pop3FetchCount + 1

\* id: i, the loop variable of the iteration that issued the RETR.
Pop3EntryId(i) == i

\* The simpleParser callback of index i.
Pop3ParseDone(i, ok) ==
    /\ fOp = "pop3"
    /\ i \in DOMAIN msgs
    /\ msgs[i] = "parsing"
    /\ IF ~ok
       THEN /\ msgs' = [msgs EXCEPT ![i] = "parse_failed"]
            /\ logged' = logged + 1
            /\ UNCHANGED <<emails, emailData, fetched, promise, result, released, stage,
                           arrival>>
       ELSE /\ msgs' = [msgs EXCEPT ![i] = "parsed"]
            /\ emailData' = WithEntry(emailData, i,
                                [id |-> Pop3EntryId(i), date |-> FormatDate(box[i]),
                                 parsed |-> TRUE])
            /\ emails' = Append(emails, i)
            /\ arrival' = Append(arrival, i)
            /\ fetched' = fetched + 1
            /\ IF fetched + 1 = Pop3FetchCount
               THEN /\ released' = released + 1
                    /\ ResolveWith(Snapshot(emails', emailData'))
                    /\ stage' = "ended"
               ELSE UNCHANGED <<released, promise, result, stage>>
            /\ UNCHANGED logged
    /\ UNCHANGED <<rvars, hvars, fOp, fArgs, fCount, box, wire, errEvents>>

\* 'error' of the client: quit() and reject.
Pop3Error ==
    /\ fOp = "pop3"
    /\ stage # "idle"
    /\ errEvents < MaxErrorEvents
    /\ errEvents' = errEvents + 1
    /\ released' = released + 1
    /\ RejectCall
    /\ stage' = IF stage \in {"connecting", "login", "stat"} THEN "failed" ELSE stage
    /\ UNCHANGED <<rvars, hvars, fOp, fArgs, fCount, box, msgs, fetched, emails, emailData,
                   wire, logged, arrival>>

\* ---- markAsRead

\* 'ready': openBox('INBOX', false, cb) is called.
MarkReadReady ==
    /\ fOp = "markRead"
    /\ stage = "connecting"
    /\ wire' = Append(wire, [cmd |-> "openBox", name |-> "INBOX", readOnly |-> FALSE])
    /\ stage' = "opening"
    /\ UNCHANGED <<rvars, hvars, fOp, fArgs, fCount, box, msgs, fetched, emails, emailData,
                   promise, result, released, logged, errEvents, arrival>>

\* The openBox callback: reject(err), or addFlags(messageIds, '\\Seen', cb).
MarkReadOpenBoxDone(ok) ==
    /\ fOp = "markRead"
    /\ stage = "opening"
    /\ IF ~ok
       THEN /\ RejectCall
            /\ stage' = "failed"
            /\ UNCHANGED wire
       ELSE /\ wire' = Append(wire, [cmd |-> "addFlags", ids |-> fArgs.messageIds,
                                     flag |-> "\\Seen"])
            /\ stage' = "flagging"
            /\ UNCHANGED <<promise, result>>
    /\ UNCHANGED <<rvars, hvars, fOp, fArgs, fCount, box, msgs, fetched, emails, emailData,
                   released, logged, errEvents, arrival>>

\* An addFlags callback that settles the promise and leaves the connection open.
MarkReadAddFlagsDoneKeepOpen(ok) ==
    /\ fOp = "markRead"
    /\ stage = "flagging"
    /\ IF ok THEN ResolveWith(<<TRUE>>) ELSE RejectCall
    /\ stage' = IF ok THEN "ended" ELSE "failed"
    /\ UNCHANGED <<rvars, hvars, fOp, fArgs, fCount, box, msgs, fetched, emails, emailData,
                   released, wire, logged, errEvents, arrival>>

\* The addFlags callback: imap.end(), then reject(err) or resolve(true).
MarkReadAddFlagsDone(ok) ==
    /\ fOp = "markRead"
    /\ stage = "flagging"
    /\ released' = released + 1
    /\ IF ok THEN ResolveWith(<<TRUE>>) ELSE RejectCall
    /\ stage' = IF ok THEN "ended" ELSE "failed"
    /\ UNCHANGED <<rvars, hvars, fOp, fArgs, fCount, box, msgs, fetched, emails, emailData,
                   wire, logged, errEvents, arrival>>

\* 'error' of the connection: reject(err) and nothing else.
MarkReadError ==
    /\ fOp = "markRead"
    /\ stage \in {"connecting", "opening", "flagging"}
    /\ errEvents < MaxErrorEvents
    /\ errEvents' = errEvents + 1
    /\ RejectCall
    /\ stage' = "failed"
    /\ UNCHANGED <<rvars, hvars, fOp, fArgs, fCount, box, msgs, fetched, emails, emailData,
                   released, wire, logged, arrival>>

\* ---- getFolders

\* 'ready': getBoxes(cb) is called.
GetFoldersReady ==
    /\ fOp = "getFolders"
    /\ stage = "connecting"
    /\ stage' = "listing"
    /\ UNCHANGED <<rvars, hvars, fOp, fArgs, fCount, box, msgs, fetched, emails, emailData,
                   promise, result, released, wire, logged, errEvents, arrival>>

\* The getBoxes callback: imap.end(), then reject(err) or
\* resolve(extractFolderNames(boxes)).
GetBoxesDone(ok, bs) ==
    /\ fOp = "getFolders"
    /\ stage = "listing"
    /\ released' = released + 1
    /\ IF ok THEN ResolveWith(ExtractFolderNames(bs, "")) ELSE RejectCall
    /\ stage' = IF ok THEN "ended" ELSE "failed"
    /\ UNCHANGED <<rvars, hvars, fOp, fArgs, fCount, box, msgs, fetched, emails, emailData,
                   wire, logged, errEvents, arrival>>

\* 'error' of the connection: reject(err) and nothing else.
GetFoldersError ==
    /\ fOp = "getFolders"
    /\ stage \in {"connecting", "listing"}
    /\ errEvents < MaxErrorEvents
    /\ errEvents' = errEvents + 1
    /\ RejectCall
    /\ stage' = "failed"
    /\ UNCHANGED <<rvars, hvars, fOp, fArgs, fCount, box, msgs, fetched, emails, emailData,
                   released, wire, logged, arrival>>

\* ---- sendEmail

\* The sendMail callback: reject(error) or resolve(info).
SendMailDone(error, info) ==
    /\ fOp = "send"
    /\ stage = "sending"
    /\ IF error # NoTransportError
       THEN /\ promise' = "rejected"
            /\ result' = <<error>>
            /\ stage' = "failed"
       ELSE /\ promise' = "resolved"
            /\ result' = <<info>>
            /\ stage' = "ended"
    /\ UNCHANGED <<rvars, hvars, fOp, fArgs, fCount, box, msgs, fetched, emails, emailData,
                   released, wire, logged, errEvents, arrival>>

\* ---- testImapConnection

\* 'ready': imap.end() and resolve(true).
TestImapReady ==
    /\ fOp = "testImap"
    /\ stage = "connecting"
    /\ released' = released + 1
    /\ ResolveWith(<<TRUE>>)
    /\ stage' = "ended"
    /\ UNCHANGED <<rvars, hvars, fOp, fArgs, fCount, box, msgs, fetched, emails, emailData,
                   wire, logged, errEvents, arrival>>

\* 'error' (a refused connection, a failed login): reject(err) and nothing else.
TestImapError ==
    /\ fOp = "testImap"
    /\ stage = "connecting"
    /\ errEvents < MaxErrorEvents
    /\ errEvents' = errEvents + 1
    /\ RejectCall
    /\ stage' = "failed"
    /\ UNCHANGED <<rvars, hvars, fOp, fArgs, fCount, box, msgs, fetched, emails, emailData,
                   released, wire, logged, arrival>>

\* connTimeout / authTimeout run out before 'ready': the client emits 'error'.
\* testImapConnection passes both bounds; fetchImapEmails, markAsRead and
\* getFolders pass none and run under the client's built-in connect and login
\* bounds.
ImapConnTimeout ==
    /\ fOp \in {"testImap", "imap", "markRead", "getFolders"}
    /\ stage = "connecting"
    /\ RejectCall
    /\ stage' = "failed"
    /\ UNCHANGED <<rvars, hvars, fOp, fArgs, fCount, box, msgs, fetched, emails, emailData,
                   released, wire, logged, errEvents, arrival>>

\* ---- testPop3Connection

\* 'connect': login(email, password, cb) is called.
TestPop3Connect ==
    /\ fOp = "testPop3"
    /\ stage = "connecting"
    /\ stage' = "login"
    /\ UNCHANGED <<rvars, hvars, fOp, fArgs, fCount, box, msgs, fetched, emails, emailData,
                   promise, result, released, wire, logged, errEvents, arrival>>

\* The login callback: quit() on both branches, then reject or resolve(true).
TestPop3LoginDone(ok) ==
    /\ fOp = "testPop3"
    /\ stage = "login"
    /\ released' = released + 1
    /\ IF ok THEN ResolveWith(<<TRUE>>) ELSE RejectCall
    /\ stage' = IF ok THEN "ended" ELSE "failed"
    /\ UNCHANGED <<rvars, hvars, fOp, fArgs, fCount, box, msgs, fetched, emails, emailData,
                   wire, logged, errEvents, arrival>>

\* 'error' of the client, at any time (the handler is registered with on,
\* not once): quit() and reject.
TestPop3Error ==
    /\ fOp = "testPop3"
    /\ stage # "idle"
    /\ errEvents < MaxErrorEvents
    /\ errEvents' = errEvents + 1
    /\ released' = released + 1
    /\ RejectCall
    /\ stage' = IF stage \in {"connecting", "login"} THEN "failed" ELSE stage
    /\ UNCHANGED <<rvars, hvars, fOp, fArgs, fCount, box, msgs, fetched, emails, emailData,
                   wire, logged, arrival>>

NextFetch ==
    \/ ImapReady
    \/ \E ok \in BOOLEAN : ImapOpenBoxDone(ok)
    \/ \E n \in 1..Len(box) : ImapMessageBody(n)
    \/ \E n \in 1..Len(box), ok \in BOOLEAN : ImapParseDone(n, ok)
    \/ \E n \in 1..Len(box) : ImapMessageAttributes(n)
    \/ ImapFetchEnd
    \/ ImapFetchError
    \/ ImapError
    \/ Pop3Connect
    \/ \E ok \in BOOLEAN : Pop3LoginDone(ok)
    \/ \E ok \in BOOLEAN : Pop3StatDone(ok)
    \/ \E i \in 1..Len(box), ok \in BOOLEAN : Pop3RetrDone(i, ok)
    \/ \E i \in 1..Len(box), ok \in BOOLEAN : Pop3ParseDone(i, ok)
    \/ Pop3Error
    \/ TestImapReady
    \/ TestImapError
    \/ ImapConnTimeout
    \/ TestPop3Connect
    \/ \E ok \in BOOLEAN : TestPop3LoginDone(ok)
    \/ TestPop3Error
    \/ MarkReadReady
    \/ \E ok \in BOOLEAN : MarkReadOpenBoxDone(ok)
    \/ \E ok \in BOOLEAN : MarkReadAddFlagsDone(ok)
    \/ MarkReadError
    \/ GetFoldersReady
    \/ \E ok \in BOOLEAN, bs \in ServerBoxes : GetBoxesDone(ok, bs)
    \/ GetFoldersError
    \/ \E error \in TransportErrors \cup {NoTransportError} :
          SendMailDone(error, TransportInfo(wire[1]))

SpecFetch == InitFetch /\ [][NextFetch]_vars

\* The steps the program takes by itself: the parser always calls back, and a
\* configured timer always fires. Every other step needs an answer from the
\* mail server, which may never come.
SpecFetchLive ==
    /\ SpecFetch
    /\ WF_vars(\E n \in 1..MaxTotal, ok \in BOOLEAN : ImapParseDone(n, ok))
    /\ WF_vars(\E i \in 1..MaxTotal, ok \in BOOLEAN : Pop3ParseDone(i, ok))
    /\ WF_vars(ImapConnTimeout)

\* ------------------------------------------------------------------ handler properties

Done == pc = "done"
Validated == req.op # "none" /\ IsValid(req)
IsTestConnection == req.op = "test-connection" /\ Validated
CallsTo(adapters) == {i \in DOMAIN calls : calls[i].adapter \in adapters}
ReceiveTests == {"testImapConnection", "testPop3Connection"}
SmtpTests == {"testSmtpConnection"}
ReceiveLegOk == \E i \in CallsTo(ReceiveTests) : calls[i].state = "resolved"
SendLegOk == \E i \in CallsTo(SmtpTests) : calls[i].state = "resolved"
NoCallPending == \A i \in DOMAIN calls : calls[i].state # "pending"

\* The selected receive protocol's host or port is neither in the directory
\* nor supplied by the request.
ReceiveUnresolved ==
    /\ req.fetchProtocol \in {"imap", "pop3"}
    /\ GetProviderSettings(req.email) = NoMatch
    /\ (FalsyStr(UserHost(req, req.fetchProtocol)) \/ FalsyNum(UserPort(req, req.fetchProtocol)))

ManualMsg(proto) == IF proto = "imap" THEN MsgImapSettingsManual ELSE MsgPop3SettingsManual

C3_UnresolvedShortCircuits ==
    (IsTestConnection /\ ReceiveUnresolved) =>
        /\ calls = <<>>
        /\ resp = Json(200, Failure(ManualMsg(req.fetchProtocol)))

C3_Witness ==
    /\ Done /\ IsTestConnection /\ ReceiveUnresolved
    /\ ~FalsyStr(UserHost(req, req.fetchProtocol))
    /\ resp.body["error"] = ManualMsg(req.fetchProtocol)

\* The aggregate response of test-connection (the one built after both legs).
AggregateProduced ==
    IsTestConnection /\ resp.status = 200 /\ "smtp" \in DOMAIN resp.body

\* C4: an aggregate test-connection response exists only when the SMTP check
\* and (for imap/pop3) the receive check have both been invoked and settled,
\* and its success flag is the conjunction of the two legs' outcomes.
C4_AggregateAfterBothLegs ==
    AggregateProduced =>
        /\ NoCallPending
        /\ Cardinality(CallsTo(SmtpTests)) = 1
        /\ (req.fetchProtocol \in {"imap", "pop3"} => Cardinality(CallsTo(ReceiveTests)) = 1)
        /\ resp.body["success"] = (ReceiveLegOk /\ SendLegOk)

C4_Witness ==
    /\ AggregateProduced
    /\ ReceiveLegOk /\ ~SendLegOk
    /\ resp.body["success"] = FALSE

\* C5: whenever the address matches a provider profile, every adapter call of
\* every operation was handed the profile's host and port for its protocol.
C5_ProfileOverridesUser ==
    \A i \in DOMAIN calls :
        LET ps == GetProviderSettings(req.email)
        IN  ps.kind = "profile" =>
                /\ calls[i].host = ps.profile[ProtoOf(calls[i].adapter)].host
                /\ calls[i].port = ps.profile[ProtoOf(calls[i].adapter)].port

C5_Witness ==
    /\ Done
    /\ GetProviderSettings(req.email).kind = "profile"
    /\ \E i \in DOMAIN calls :
        /\ calls[i].adapter = "sendEmail"
        /\ req.smtpHost = "mail.example.org"
        /\ calls[i].host = "smtp.yandex.ru"

\* C6 (as stated): at an unknown domain, a protocol whose host or port the
\* request does not supply gets no adapter call in any operation, and the
\* operation that needs it answers with a settings-unresolved failure.
ProtocolUnresolved(proto) ==
    /\ GetProviderSettings(req.email) = NoMatch
    /\ (FalsyStr(UserHost(req, proto)) \/ FalsyNum(UserPort(req, proto)))

\* The protocols an operation has to reach a server over.
NeededProtocols(r) ==
    CASE r.op = "test-connection" -> ({r.fetchProtocol} \cap {"imap", "pop3"}) \cup {"smtp"}
      [] r.op = "fetch-emails" -> {r.fetchProtocol} \cap {"imap", "pop3"}
      [] r.op = "send-email" -> {"smtp"}
      [] r.op = "mark-read" -> {"imap"}
      [] r.op = "get-folders" -> IF r.fetchProtocol = "pop3" THEN {} ELSE {"imap"}
      [] r.op = "custom-api-call" -> {}

C6_UnresolvedNeverCalled ==
    Validated =>
        \A proto \in NeededProtocols(req) :
            ProtocolUnresolved(proto) =>
                /\ \A i \in DOMAIN calls : ProtoOf(calls[i].adapter) # proto
                /\ Done => /\ "error" \in DOMAIN resp.body
                           /\ resp.body["error"] \in SettingsMsgs

\* C13 (as stated): a validated mark-read request of a POP3 account makes no
\* adapter call and is answered with an "operation not supported by protocol"
\* failure.
C13_MarkReadPop3Rejected ==
    (Validated /\ req.op = "mark-read" /\ req.fetchProtocol = "pop3") =>
        /\ calls = <<>>
        /\ Done => /\ resp.body["success"] = FALSE
                   /\ resp.body["error"] = "Operation not supported by protocol."

\* C14: a validated list-folders request with receive protocol pop3 makes no
\* adapter call and no report, and is answered { success: true, folders: [] }.
C14_Pop3FoldersEmpty ==
    (Validated /\ req.op = "get-folders" /\ req.fetchProtocol = "pop3") =>
        /\ calls = <<>>
        /\ outbound = <<>>
        /\ Done
        /\ resp.status = 200
        /\ DOMAIN resp.body = {"success", "folders"}
        /\ resp.body["success"] = TRUE
        /\ resp.body["folders"] = "[]"

\* A POP3 list-folders request at an unknown domain with no IMAP host has
\* been answered with success.
C14_Witness ==
    /\ Done /\ Validated /\ req.op = "get-folders" /\ req.fetchProtocol = "pop3"
    /\ GetProviderSettings(req.email) = NoMatch
    /\ FalsyStr(req.imapHost)
    /\ resp.body["success"] = TRUE

\* The handler has nothing left to do for the request.
Finished == pc \in {"done", "unanswered", "awaiting forever"}

\* C17 (as stated): a validated request the server has finished with has
\* received a JSON response that carries a success indicator.
C17_ValidatedAnswered ==
    (Validated /\ Finished) =>
        /\ resp.status # 0
        /\ "success" \in DOMAIN resp.body

ReporterCalls == {i \in DOMAIN outbound : outbound[i].fn = "logActivity"}
ReporterFailed == \E i \in ReporterCalls : outbound[i].state = "failed"

\* Whether the operation the request asked for succeeded, by what its adapter
\* calls and its custom call returned.
OperationSucceeded ==
    CASE req.op = "test-connection" -> ReceiveLegOk /\ SendLegOk
      [] req.op = "custom-api-call" ->
            \E i \in DOMAIN outbound :
                outbound[i].fn = "callCustomApi" /\ outbound[i].state = "posted"
      [] OTHER -> calls # <<>> /\ \A i \in DOMAIN calls : calls[i].state = "resolved"

\* C18: logActivity never rejects (no exception leaves a handler after a
\* failed report), and a response sent after a report, failed or not, tells
\* the operation's own outcome.
C18_ReporterFailureInvisible ==
    /\ ReporterFailed => pc \notin {"thrown", "unanswered"}
    /\ (Done /\ ReporterCalls # {}) =>
            /\ resp.status \in {200, 500}
            /\ resp.body["success"] = OperationSucceeded

\* A fetch succeeded, its report failed to post, and the response is the
\* successful one.
C18_Witness ==
    /\ Done /\ ReporterFailed
    /\ req.op = "fetch-emails"
    /\ resp.body["success"] = TRUE
    /\ console # <<>>

\* A logActivity call that went out to the API (its post was started).
WentOut(call) == call.state \in {"posting", "posted", "failed"}

\* C33: a logActivity call goes out to the API exactly when API logging is on
\* and its action name is one of the configured logEvents; any other call
\* returns with no outbound call and stays so; once the request is answered
\* every call that went out has been settled.
C33_ReportedIffConfigured ==
    \A i \in ReporterCalls :
        /\ WentOut(outbound[i]) <=> (LogToAPI /\ outbound[i].action \in LogEvents)
        /\ ~WentOut(outbound[i]) =>
              /\ outbound[i].state = "skipped"
              /\ "timestamp" \notin DOMAIN outbound[i].data
        /\ (Done /\ WentOut(outbound[i])) => outbound[i].state \in {"posted", "failed"}

\* A passed connection test emits 'connection_test_success', which is not a
\* configured event name: the call returns without a post.
C33_Witness ==
    /\ Done /\ req.op = "test-connection"
    /\ ReceiveLegOk /\ SendLegOk
    /\ \E i \in ReporterCalls :
          /\ outbound[i].action = "connection_test_success"
          /\ outbound[i].state = "skipped"
    /\ console = <<>>

CustomCallFailed ==
    /\ req.op = "custom-api-call"
    /\ \E i \in DOMAIN outbound :
            outbound[i].fn = "callCustomApi" /\ outbound[i].state = "failed"

\* C19: after a failed custom call, the response is 500 with the fixed generic
\* message, the reported error is that same message, and no transport error
\* text is in the response, in a report or in a logger line.
C19_GenericExternalError ==
    CustomCallFailed =>
        /\ pending = Json(500, Failure("External API call failed."))
        /\ Done => resp = pending
        /\ \A i \in ReporterCalls : outbound[i].data["error"] = "External API call failed."
        /\ \A m \in ApiErrMsgs :
                /\ \A k \in DOMAIN logs : ~Includes(logs[k], m)
                /\ \A i \in ReporterCalls : ~Includes(outbound[i].data["error"], m)
                /\ ~Includes(pending.body["error"], m)

C19_Witness ==
    /\ Done /\ CustomCallFailed
    /\ resp.status = 500
    /\ \E k \in DOMAIN console : Includes(console[k], "timeout of 10000ms exceeded")
    /\ \E k \in DOMAIN logs : Includes(logs[k], "External API call failed.")

\* C20: a request's (non-empty) password is in no logger line, in no console
\* line and in no field of a payload handed to logActivity, on any path.
C20_PasswordNeverLogged ==
    (req.op # "none" /\ req.password # "") =>
        /\ \A k \in DOMAIN logs : ~Includes(logs[k], req.password)
        /\ \A k \in DOMAIN console : ~Includes(console[k], req.password)
        /\ \A i \in ReporterCalls :
                \A f \in DOMAIN outbound[i].data : ~Includes(outbound[i].data[f], req.password)

\* A test with a password reached the adapters, failed, was logged and reported.
C20_Witness ==
    /\ Done /\ req.op = "test-connection" /\ req.password = "hunter2"
    /\ Len(calls) = 2
    /\ Len(logs) >= 2
    /\ \E i \in ReporterCalls : "errors" \in DOMAIN outbound[i].data

\* The adapters a request's operation is meant to run. The SMTP check of
\* test-connection is part of the request unless the receive settings were
\* unresolvable, in which case the handler has answered before reaching it.
RequiredAdapters(r) ==
    CASE r.op = "test-connection" ->
            (IF r.fetchProtocol = "imap" THEN {"testImapConnection"}
             ELSE IF r.fetchProtocol = "pop3" THEN {"testPop3Connection"} ELSE {})
            \cup (IF ReceiveUnresolved THEN {} ELSE {"testSmtpConnection"})
      [] r.op = "fetch-emails" ->
            IF r.fetchProtocol = "imap" THEN {"fetchImapEmails"}
            ELSE IF r.fetchProtocol = "pop3" THEN {"fetchPop3Emails"} ELSE {}
      [] r.op = "send-email" -> {"sendEmail"}
      [] r.op = "mark-read" -> {"markAsRead"}
      [] r.op = "get-folders" -> IF r.fetchProtocol = "pop3" THEN {} ELSE {"getFolders"}
      [] r.op = "custom-api-call" -> {}

AllAdapters ==
    {"testImapConnection", "testPop3Connection", "testSmtpConnection", "fetchImapEmails",
     "fetchPop3Emails", "sendEmail", "markAsRead", "getFolders"}

LegPrefixes == {"IMAP: ", "POP3: ", "SMTP: "}
HasLegPrefix(e) ==
    \E p \in LegPrefixes : Len(e) >= Len(p) /\ SubSeq(e, 1, Len(p)) = p

\* C24 (as stated): every entry of a test-connection request's error list
\* starts with "IMAP: ", "POP3: " or "SMTP: ", whatever the receive protocol
\* value and the leg outcomes, and the aggregate response's error field is
\* the join of the entries.
C24_ErrorsPrefixed ==
    IsTestConnection =>
        /\ \A k \in 1..Len(errs) : HasLegPrefix(errs[k])
        /\ (Done /\ AggregateProduced /\ errs # <<>>) =>
                resp.body["error"] = Join(errs, ", ")

\* The legs of a test-connection request that did not pass: the receive leg
\* (a rejected check, or a protocol that is neither imap nor pop3) and the
\* send leg.
FailedLegs ==
    (IF ReceiveLegOk THEN {} ELSE {"receive"}) \cup (IF SendLegOk THEN {} ELSE {"send"})

\* C30: in an aggregate test-connection response success is true exactly
\* when the error field is null; the error list holds one entry per failed
\* leg and none for a passed leg.
C30_SuccessIffNoError ==
    (Done /\ AggregateProduced) =>
        /\ (resp.body["success"] = TRUE) <=> (resp.body["error"] = Null)
        /\ Len(errs) = Cardinality(FailedLegs)
        /\ (resp.body["success"] = TRUE) <=> (FailedLegs = {})

C30_Witness ==
    /\ Done /\ AggregateProduced
    /\ req.fetchProtocol = "imap"
    /\ FailedLegs = {"send"}
    /\ resp.body["success"] = FALSE
    /\ resp.body["error"] = "SMTP: Invalid credentials"

\* ------------------------------------------------------------------ resolver properties

\* C7 (as stated): for an address without '@', provider resolution ends in a
\* structured no-match value, never in a raised exception.
C7_NoAtFailsStructured ==
    (rOut # NotCalled /\ AtPositions(rIn) = {}) => rOut = NoMatch

\* An address with exactly one '@', and the text after it.
OneAt(email) == Cardinality(AtPositions(email)) = 1
DomainOf(email) ==
    LET p == CHOOSE i \in AtPositions(email) : TRUE
    IN  SubSeq(email, p + 1, Len(email))

\* needle is a contiguous piece of hay.
Contains(hay, needle) ==
    \E i \in 0..Len(hay), j \in 0..Len(hay) :
        i <= j /\ SubSeq(hay, i + 1, j) = needle

\* The table positions whose IMAP or POP3 host contains the lower-cased domain.
Candidates(email) ==
    {i \in 1..Len(providers) :
        \/ providers[i].imap.present
             /\ Contains(providers[i].imap.host, ToLowerCase(DomainOf(email)))
        \/ providers[i].pop3.present
             /\ Contains(providers[i].pop3.host, ToLowerCase(DomainOf(email)))}

\* C26: for an address with one '@', provider resolution returns the first
\* profile in table order whose IMAP or POP3 host contains the lower-cased
\* domain, and no match exactly when no profile with such an endpoint contains
\* it; the profile without endpoints is never returned and raises nothing.
C26_FirstContainingProfile ==
    (rOut # NotCalled /\ OneAt(rIn)) =>
        /\ rOut # Thrown
        /\ rOut = NoMatch <=> Candidates(rIn) = {}
        /\ rOut.kind = "profile" =>
              /\ \E i \in Candidates(rIn) :
                    /\ rOut.profile = providers[i]
                    /\ \A k \in Candidates(rIn) : i <= k
              /\ rOut.profile.key # "custom"
              /\ rOut.profile.imap.present \/ rOut.profile.pop3.present

C26_Witness ==
    /\ rIn = "u@com"
    /\ Cardinality(Candidates(rIn)) = 3
    /\ rOut = Profile(providers[1])

\* ------------------------------------------------------------------ fetch properties

PositionIn(seq, x) == CHOOSE k \in 1..Len(seq) : seq[k] = x

\* The call is one of the two fetch adapters.
IsFetch == fOp \in {"imap", "pop3"}

\* C8 (as stated): the list a fetch resolves with is sorted non-increasing by
\* message date, and messages of equal date keep the order they were fetched in.
C8_SortedNewestFirst ==
    (IsFetch /\ promise = "resolved") =>
        \A i, j \in 1..Len(result) :
            i < j =>
                /\ TimeOf(box[result[i].id]) >= TimeOf(box[result[j].id])
                /\ TimeOf(box[result[i].id]) = TimeOf(box[result[j].id])
                       => PositionIn(arrival, result[i].id) < PositionIn(arrival, result[j].id)

\* C9 (as stated): a fetch resolves with at most min(count, total) entries, and
\* with count = 0 or total = 0 it resolves with the empty list and issues no
\* FETCH and no RETR.
C9_WindowBounded ==
    /\ (IsFetch /\ promise = "resolved") => Len(result) <= Min2(fCount, Len(box))
    /\ (IsFetch /\ (fCount = 0 \/ Len(box) = 0)) =>
            /\ wire = <<>>
            /\ promise = "resolved" => result = <<>>

\* Every requested POP3 index has been attempted: its RETR failed, or its
\* parse succeeded or failed.
Pop3AllAttempted ==
    /\ fOp = "pop3"
    /\ DOMAIN msgs # {}
    /\ \A i \in DOMAIN msgs : msgs[i] \in {"retr_failed", "parsed", "parse_failed"}

\* C10 (as stated): once every index 1..N of a POP3 fetch has been attempted
\* (and no connection error intervened) the fetch has resolved, with exactly
\* the successfully parsed messages.
C10_Pop3ResolvesWhenAllAttempted ==
    (Pop3AllAttempted /\ errEvents = 0) =>
        /\ promise = "resolved"
        /\ {result[k].id : k \in 1..Len(result)} = {i \in DOMAIN msgs : msgs[i] = "parsed"}

\* The messages of an IMAP fetch whose body could not be parsed.
ImapMalformed == {n \in DOMAIN msgs : msgs[n].body = "failed"}

\* Every body of the window has been handed to the parser and the parser has
\* called back for it.
ImapAllParsesBack == \A n \in DOMAIN msgs : msgs[n].body \in {"parsed", "failed"}

\* C11 (as stated): when the parser has called back for every message, the
\* list an IMAP fetch resolves with holds no message whose body failed to parse
\* and holds every other message of the window, each one fully parsed; every
\* parse failure has been logged exactly once.
C11_MalformedDropped ==
    (fOp = "imap" /\ promise = "resolved" /\ stage = "ended" /\ ImapAllParsesBack) =>
        /\ {result[k].id : k \in 1..Len(result)} = (DOMAIN msgs) \ ImapMalformed
        /\ \A k \in 1..Len(result) : result[k].parsed
        /\ logged = Cardinality(ImapMalformed)

\* C12 (as stated): once a connection test has settled, resolved or rejected,
\* it has released its connection (end() for IMAP, quit() for POP3).
C12_TestReleasesConnection ==
    (fOp \in {"testImap", "testPop3"} /\ promise # "pending") => released >= 1

\* C16 (as stated): every adapter call that talks to a mail store (connect,
\* login, stat, fetch, retrieve) eventually settles, whatever the server does
\* or fails to do.
C16_EveryCallSettles == (fOp # "send") => <>(promise # "pending")

\* C27: for a non-empty folder and count >= 1 an IMAP fetch issues one FETCH,
\* for the sequence range [total - min(count, total) + 1, total], with
\* 1 <= start <= end = total: the most recent min(count, total) messages.
C27_ImapWindow ==
    (fOp = "imap" /\ Len(box) >= 1 /\ fCount >= 1 /\ stage \in {"fetching", "ended"}) =>
        LET total == Len(box)
            n == IF fCount <= total THEN fCount ELSE total
        IN  /\ Len(wire) = 1
            /\ wire[1][1] = total - n + 1
            /\ wire[1][2] = total
            /\ 1 <= wire[1][1] /\ wire[1][1] <= wire[1][2]
            /\ DOMAIN msgs = {k \in 1..total : k > total - n}
            /\ Cardinality(DOMAIN msgs) = n

C27_Witness ==
    /\ fOp = "imap" /\ stage = "ended" /\ promise = "resolved"
    /\ Len(box) = 2 /\ fCount = 1
    /\ wire = << <<2, 2>> >>
    /\ DOMAIN msgs = {2}

\* C28: a POP3 fetch issues RETR for the indices 1..min(count, total), each
\* once and no other; every message it collects or returns carries as id the
\* index it was retrieved with (its content is that of the mailbox's message
\* at that index), in whatever order the callbacks came back.
C28_Pop3Indices ==
    fOp = "pop3" =>
        LET n == IF fCount <= Len(box) THEN fCount ELSE Len(box)
        IN  /\ stage \in {"connecting", "login", "stat"} => wire = <<>>
            /\ wire # <<>> =>
                  /\ Len(wire) = n
                  /\ \A i \in 1..n : Cardinality({k \in 1..Len(wire) : wire[k] = i}) = 1
            /\ stage = "retr" => Len(wire) = n
            /\ \A k \in 1..Len(emails) :
                  /\ emailData[emails[k]].id = arrival[k]
                  /\ emailData[emails[k]].id \in 1..n
                  /\ emailData[emails[k]].date = FormatDate(box[arrival[k]])
            /\ promise = "resolved" =>
                  /\ \A k \in 1..Len(result) :
                        /\ result[k].id = arrival[k]
                        /\ result[k].date = FormatDate(box[result[k].id])
                  /\ \A k, l \in 1..Len(result) : k # l => result[k].id # result[l].id

C28_Witness ==
    /\ fOp = "pop3" /\ promise = "resolved"
    /\ wire = <<1, 2>>
    /\ arrival = <<2, 1>>
    /\ Len(result) = 2
    /\ result[1].id = 2 /\ result[2].id = 1

\* C34 (as stated): a POP3 test or fetch never issues QUIT twice, and once its
\* promise has settled it has issued QUIT exactly once, whatever 'error'
\* events or callbacks arrive afterwards.
C34_Pop3QuitOnce ==
    fOp \in {"pop3", "testPop3"} =>
        /\ released <= 1
        /\ promise # "pending" => released = 1

\* C22 (as stated): when an IMAP fetch has resolved and no parse has failed,
\* the parser has called back for every message of the window, and every
\* entry of the returned list carries its parsed fields.
C22_ResolvesAfterAllParsed ==
    (fOp = "imap" /\ promise = "resolved" /\ ImapMalformed = {}) =>
        /\ \A n \in DOMAIN msgs : msgs[n].body = "parsed"
        /\ \A k \in 1..Len(result) : result[k].parsed

\* The call opens a mail-store connection of its own for one operation.
IsTransient == fOp \in {"imap", "pop3", "markRead", "getFolders"}

\* C23 (as stated): once a fetch, mark-read or list-folders call has settled,
\* resolved or rejected, it has released its connection (end() for IMAP,
\* quit() for POP3).
C23_TransientReleased ==
    (IsTransient /\ promise # "pending") => released >= 1

\* ---- markAsRead

IsMarkRead == fOp = "markRead"

AddFlagsIssued == {k \in 1..Len(wire) : wire[k].cmd = "addFlags"}

\* C29: markAsRead opens INBOX read-write first and issues addFlags only
\* once that open has succeeded, one time, with the \Seen flag and exactly the
\* supplied ids; it resolves true only after the addFlags callback reported
\* success and end() was called; after a failed open or a failed addFlags
\* the promise is rejected and stays so.
C29_MarkReadOrder ==
    IsMarkRead =>
        /\ stage \in {"connecting", "opening"} => AddFlagsIssued = {}
        /\ \A k \in AddFlagsIssued :
              /\ k = 2
              /\ wire[1] = [cmd |-> "openBox", name |-> "INBOX", readOnly |-> FALSE]
              /\ wire[k].ids = fArgs.messageIds
              /\ wire[k].flag = "\\Seen"
        /\ Len(wire) <= 2
        /\ promise = "resolved" =>
              /\ result = <<TRUE>>
              /\ stage = "ended"
              /\ AddFlagsIssued = {2}
              /\ released = 1
        /\ stage = "failed" => promise = "rejected"
        /\ stage = "flagging" => promise = "pending" /\ released = 0

C29_Witness ==
    /\ IsMarkRead
    /\ promise = "resolved"
    /\ Len(fArgs.messageIds) = 3
    /\ released = 1

\* ---- sendEmail

IsSend == fOp = "send"

LineBreaks(text) == {i \in 1..Len(text) : SubSeq(text, i, i) = "\n"}

\* html is text with each line break, and nothing else, turned into <br>:
\* character i of text sits in html shifted by the markup of the breaks
\* before it.
MirrorsAsHtml(text, html) ==
    /\ Len(html) = Len(text) + 3 * Cardinality(LineBreaks(text))
    /\ \A i \in 1..Len(text) :
          LET at == i + 3 * Cardinality({k \in LineBreaks(text) : k < i})
          IN  IF i \in LineBreaks(text)
              THEN SubSeq(html, at, at + 3) = "<br>"
              ELSE SubSeq(html, at, at) = SubSeq(text, i, i)

\* C21: sendEmail hands the transport the supplied from, to and subject, the
\* body as text and, as html, the body with every line break turned into
\* <br>; it makes one send attempt, resolves with the transport's info record
\* and rejects with the transport's error.
C21_SendContract ==
    IsSend =>
        /\ Len(wire) = 1
        /\ wire[1].from = fArgs.from
        /\ wire[1].to = fArgs.to
        /\ wire[1].subject = fArgs.subject
        /\ wire[1].text = fArgs.text
        /\ MirrorsAsHtml(fArgs.text, wire[1].html)
        /\ promise = "resolved" => result = <<TransportInfo(wire[1])>>
        /\ promise = "rejected" => Len(result) = 1 /\ result[1] \in TransportErrors
        /\ promise = "pending" <=> stage = "sending"

C21_Witness ==
    /\ IsSend
    /\ Cardinality(LineBreaks(fArgs.text)) = 3
    /\ wire[1].html = "a<br><br>b<br>"
    /\ promise = "resolved"

\* ------------------------------------------------------------------ folder properties

\* A node of a mailbox tree is named by its path: the position of its ancestor
\* at each level, then its own position among its siblings.
RECURSIVE ValidPath(_, _)
ValidPath(bs, p) ==
    /\ Len(p) >= 1
    /\ p[1] <= Len(bs)
    /\ \/ Len(p) = 1
       \/ /\ bs[p[1]].children.present
          /\ ValidPath(bs[p[1]].children.list, Tail(p))

PathsOf(bs) ==
    {p \in UNION {[1..d -> 1..MaxSiblings] : d \in 1..MaxDepth} : ValidPath(bs, p)}

RECURSIVE NodeAt(_, _)
NodeAt(bs, p) ==
    IF Len(p) = 1 THEN bs[p[1]] ELSE NodeAt(bs[p[1]].children.list, Tail(p))

\* Each ancestor's name followed by that ancestor's delimiter, then the node's name.
RECURSIVE PathName(_, _)
PathName(bs, p) ==
    IF Len(p) = 1 THEN bs[p[1]].name
    ELSE bs[p[1]].name \o bs[p[1]].delimiter \o PathName(bs[p[1]].children.list, Tail(p))

\* Depth-first order: an ancestor precedes its descendants, and a node with
\* all its descendants precedes its later siblings.
Before(p, q) ==
    \/ Len(p) < Len(q) /\ \A j \in 1..Len(p) : p[j] = q[j]
    \/ \E i \in 1..Min2(Len(p), Len(q)) :
            p[i] < q[i] /\ \A j \in 1..(i - 1) : p[j] = q[j]

Rank(bs, p) == 1 + Cardinality({q \in PathsOf(bs) : Before(q, p)})

NamesOf(list) == [i \in 1..Len(list) |-> list[i].name]

\* One entry per node, in depth-first parent-first order, named by its path.
FlattenedDepthFirst ==
    /\ Len(folderList.value) = Cardinality(PathsOf(boxes))
    /\ \A p \in PathsOf(boxes) :
            /\ folderList.value[Rank(boxes, p)].name = PathName(boxes, p)
            /\ folderList.value[Rank(boxes, p)].delimiter = NodeAt(boxes, p).delimiter

\* The tree A{B,C{D}} with delimiter "/".
ExampleBoxes ==
    <<Box("A", "/", Children(
        <<Box("B", "/", NoChildren),
          Box("C", "/", Children(<<Box("D", "/", NoChildren)>>))>>))>>

\* C15 (as stated): the flattening is depth-first, parent first, one entry per
\* node, each named by prefix plus name, and the tree A{B,C{D}} flattens to
\* [A, B, C, C/D].
C15_FlattenAsStated ==
    folderList.called =>
        /\ FlattenedDepthFirst
        /\ boxes = ExampleBoxes => NamesOf(folderList.value) = <<"A", "B", "C", "C/D">>

\* C15 (amended): the flattening is depth-first, parent first, one entry per
\* node; each name is the names of the node's ancestors, each followed by that
\* ancestor's own delimiter, then the node's name; the tree A{B,C{D}} with
\* delimiter "/" flattens to [A, A/B, A/C, A/C/D].
C15_DepthFirstFullPaths ==
    folderList.called =>
        /\ FlattenedDepthFirst
        /\ boxes = ExampleBoxes =>
               NamesOf(folderList.value) = <<"A", "A/B", "A/C", "A/C/D">>

\* A three-level tree whose levels use different delimiters has been flattened.
C15_Witness ==
    /\ folderList.called
    /\ \E p \in PathsOf(boxes) :
            /\ Len(p) = 3
            /\ p[2] = 2
            /\ NodeAt(boxes, <<p[1]>>).delimiter # NodeAt(boxes, <<p[1], p[2]>>).delimiter
            /\ folderList.value[Rank(boxes, p)].name = "A.C/D"

AllAttemptsFailed ==
    /\ retryPc = "returned"
    /\ \A k \in 1..Len(apiCalls) : AttemptFailed(apiCalls[k])

LastFailure == IF apiCalls = <<>> THEN NoLastError ELSE apiCalls[Len(apiCalls)]

WaitsDue ==
    IF retryPc = "waiting" THEN Len(apiCalls)
    ELSE IF apiCalls = <<>> THEN 0 ELSE Len(apiCalls) - 1

BackoffContract ==
    IsRetry =>
        /\ Len(waits) = WaitsDue
        /\ \A k \in 1..Len(waits) :
              /\ k < maxRetries
              /\ AttemptFailed(apiCalls[k])
              /\ waits[k] = (2 ^ k) * 1000
        /\ \A k \in 1..(Len(waits) - 1) : waits[k] < waits[k + 1]
        /\ AllAttemptsFailed =>
              /\ Len(apiCalls) = maxRetries
              /\ retryResult.kind = "exhausted"
              /\ ~retryResult.success
              /\ retryResult.error = "Max retries exceeded"
              /\ retryResult.attempts = maxRetries
              /\ retryResult.lastError = LastFailure

\* C32: makeAPICallWithRetry returns in the end. After failed attempt k with
\* k < maxRetries it has waited 2^k seconds, the delays grow strictly, and
\* there is no wait after the latest attempt; when every attempt failed it
\* returns success false, 'Max retries exceeded', attempts maxRetries and the
\* failure of the last attempt as lastError.
C32_TerminatesWithBackoff ==
    /\ [](BackoffContract)
    /\ <>(retryPc = "returned")

\* Four failed attempts of four, with waits of 2, 4 and 8 seconds between them.
C32_Witness ==
    /\ AllAttemptsFailed
    /\ maxRetries = 4
    /\ waits = <<2000, 4000, 8000>>
    /\ retryResult.lastError = apiCalls[4]

====
